---- MODULE Spec2Model ----
(***************************************************************************)
(* Model of the sui-mvr-rust resolution-and-cache engine:                  *)
(*   src/src/cache.rs    MvrCache, CacheEntry (TTL expiry, LRU eviction)   *)
(*   src/src/error.rs    validate_package_name, validate_type_name         *)
(*   src/src/resolver.rs MvrResolver (override -> cache -> fetch)          *)
(*                                                                         *)
(* Strings that the code inspects (names, cache keys) are sequences of     *)
(* one-character strings, so that starts_with / contains / split / format! *)
(* are computed as the code computes them.  Option<String> is a sequence   *)
(* of length 0 (None) or 1 (Some(v)).  Instant is a natural number; one    *)
(* cache operation is one critical section and reads the clock once.       *)
(***************************************************************************)
EXTENDS Integers, Sequences, FiniteSets, TLC

VARIABLES
    entries,      \* MvrCache.entries: cache key -> CacheEntry (cache.rs:40)
    now,          \* the monotonic clock read by Instant::now()
    max_size,     \* MvrCache.max_size (cache.rs:42)
    default_ttl,  \* MvrCache.default_ttl (cache.rs:41) = MvrConfig.cache_ttl
    last,         \* the last direct cache operation and what it returned
    ins,          \* history: cache key -> time, ttl and value of its last insert
    poisoned,     \* the Mutex of MvrCache.entries is poisoned (cache.rs:40)
    permits,      \* available permits of MvrResolver.semaphore (resolver.rs:15)
    overrides,    \* MvrConfig.overrides: None or Some(MvrOverrides) (types.rs:13)
    max_concurrent_requests,  \* MvrConfig.max_concurrent_requests (types.rs:17)
    calls,        \* per caller: the resolution call it is running
    started,      \* number of resolution calls made so far
    out           \* the call that returned in the last step, with its result

resolver_vars == <<permits, overrides, max_concurrent_requests, calls, started>>

vars == <<entries, now, max_size, default_ttl, last, ins, poisoned, resolver_vars, out>>

----------------------------------------------------------------------------
(* Bounds of the model *)

MaxTime == 2
MaxHits == 2
MaxCap == 2
MaxTtl == 1

----------------------------------------------------------------------------
(* Strings *)

None == <<>>
Some(x) == <<x>>

Str_pkg == <<"p", "k", "g", ":">>
Str_type == <<"t", "y", "p", "e", ":">>

PkgAB == <<"@", "a", "/", "b">>
PkgCD == <<"@", "c", "/", "d">>
TypeAB == <<"@", "a", "/", "b", ":", ":", "m", ":", ":", "T">>

Values == {"0x1", "0x2"}

\* format!("pkg:{}", package_name)
package_key(package_name) == Str_pkg \o package_name

\* format!("type:{}", type_name)
\* the type key built with the tag of the package key
type_key_pkg_tag(type_name) == Str_pkg \o type_name

type_key(type_name) == Str_type \o type_name

----------------------------------------------------------------------------
(* Resolution calls *)

EmptyMap == [k \in {} |-> 0]

\* A resolution call.  pc: idle, loop (batch classification), acquire (waiting
\* for a permit), fetching (permit held, request sent), storing (batch results
\* being cached), done (returned `ret`), cancelled (the future was dropped at
\* an await point), panicked (the task unwound).  acquired and sent record the
\* permits the call took and the requests it issued;
\* resp is the registry's response to the call's request, once it has one;
\* target is the target of the resolve_mvr_target that made the call, if one did.
NewCall(kind, batch, names) ==
    [pc |-> "idle", kind |-> kind, batch |-> batch, target |-> None,
     names |-> names, i |-> 1, results |-> EmptyMap, to_fetch |-> <<>>,
     fetched |-> EmptyMap, ret |-> None, acquired |-> 0, sent |-> <<>>,
     resp |-> None]

----------------------------------------------------------------------------
(* Results and errors (error.rs:5-53) *)

Ok(x) == [ok |-> TRUE, v |-> x]
Err(e) == [ok |-> FALSE, v |-> e]

InvalidPackageName(name) == [kind |-> "InvalidPackageName", arg |-> name]
InvalidTypeName(name) == [kind |-> "InvalidTypeName", arg |-> name]
PackageNotFound(name) == [kind |-> "PackageNotFound", arg |-> name]
TypeNotFound(name) == [kind |-> "TypeNotFound", arg |-> name]
RateLimitExceeded(retry_after_secs) == [kind |-> "RateLimitExceeded", arg |-> retry_after_secs]
ServerError(status_code) == [kind |-> "ServerError", arg |-> status_code]
HttpError == [kind |-> "HttpError", arg |-> 0]
CacheError == [kind |-> "CacheError"]
JsonError == [kind |-> "JsonError", arg |-> 0]

----------------------------------------------------------------------------
(* Name validation (error.rs:103-142) *)

starts_with(s, c) == Len(s) >= 1 /\ s[1] = c

\* the positions at which the pattern `pat` occurs in `s`
Matches(s, pat) ==
    {i \in 1..Len(s) : i + Len(pat) - 1 <= Len(s) /\ SubSeq(s, i, i + Len(pat) - 1) = pat}

contains(s, pat) == Matches(s, pat) # {}

\* str::split: the pieces between the non-overlapping occurrences of `pat`,
\* found left to right
RECURSIVE split(_, _)
split(s, pat) ==
    IF Matches(s, pat) = {}
    THEN <<s>>
    ELSE LET i == CHOOSE m \in Matches(s, pat) : \A n \in Matches(s, pat) : m <= n
         IN <<SubSeq(s, 1, i - 1)>> \o split(SubSeq(s, i + Len(pat), Len(s)), pat)

\* the validator without the check on the number of segments
validate_package_name_any_parts(name) ==
    IF ~starts_with(name, "@")
    THEN Err(InvalidPackageName(name))
    ELSE LET without_at == Tail(name)
             parts == split(without_at, <<"/">>)
         IN IF ~contains(without_at, <<"/">>)
            THEN Err(InvalidPackageName(name))
            ELSE IF parts[1] = <<>> \/ parts[2] = <<>>
                 THEN Err(InvalidPackageName(name))
                 ELSE Ok(<<>>)

validate_package_name(name) ==
    IF ~starts_with(name, "@")
    THEN Err(InvalidPackageName(name))
    ELSE LET without_at == Tail(name)
             parts == split(without_at, <<"/">>)
         IN IF ~contains(without_at, <<"/">>)
            THEN Err(InvalidPackageName(name))
            ELSE IF Len(parts) # 2 \/ parts[1] = <<>> \/ parts[2] = <<>>
                 THEN Err(InvalidPackageName(name))
                 ELSE Ok(<<>>)

validate_type_name(name) ==
    IF ~starts_with(name, "@")
    THEN Err(InvalidTypeName(name))
    ELSE IF ~contains(name, <<":", ":">>)
         THEN Err(InvalidTypeName(name))
         ELSE LET parts == split(name, <<":", ":">>)
              IN IF Len(parts) < 3
                 THEN Err(InvalidTypeName(name))
                 ELSE validate_package_name(parts[1])

----------------------------------------------------------------------------
(* CacheEntry *)

CacheEntry_new(value, ttl, t) ==
    [value |-> value, expires_at |-> t + ttl, hit_count |-> 0, last_accessed |-> t]

is_expired(entry, t) == t > entry.expires_at

\* the largest Instant the clock of the model can represent
InstantMax == MaxTime + MaxTtl

\* a Duration too large to be added to any Instant, such as Duration::MAX
DurationMax == InstantMax + 1

\* `now + ttl` of CacheEntry::new: Instant + Duration panics when the sum
\* cannot be represented (None)
checked_add(t, d) == IF t + d > InstantMax THEN None ELSE Some(t + d)

\* the entry after access(), and the clone of the value it returns
\* access without the hit counter
access_no_count(entry, t) ==
    [entry |-> [entry EXCEPT !.last_accessed = t],
     value |-> entry.value]

access(entry, t) ==
    [entry |-> [entry EXCEPT !.hit_count = @ + 1, !.last_accessed = t],
     value |-> entry.value]

----------------------------------------------------------------------------
(* MvrCache: each operator is one critical section on the entry map `es` *)

Without(es, key) == [k \in DOMAIN es \ {key} |-> es[k]]

Put(es, key, entry) == [k \in DOMAIN es \cup {key} |-> IF k = key THEN entry ELSE es[k]]

\* get that answers None for an expired entry but leaves it in the map
get_keeps_expired(es, key, t) ==
    IF key \in DOMAIN es
    THEN IF ~is_expired(es[key], t)
         THEN [entries |-> [es EXCEPT ![key] = access(es[key], t).entry],
               ret |-> Some(access(es[key], t).value)]
         ELSE [entries |-> es, ret |-> None]
    ELSE [entries |-> es, ret |-> None]

get(es, key, t) ==
    IF key \in DOMAIN es
    THEN IF ~is_expired(es[key], t)
         THEN [entries |-> [es EXCEPT ![key] = access(es[key], t).entry],
               ret |-> Some(access(es[key], t).value)]
         ELSE [entries |-> Without(es, key), ret |-> None]
    ELSE [entries |-> es, ret |-> None]

\* min_by_key over a HashMap: iteration order is arbitrary, so any entry with
\* the minimal last_accessed may be the one found
lru_keys(es) ==
    {k \in DOMAIN es : \A j \in DOMAIN es : es[k].last_accessed <= es[j].last_accessed}

\* the possible outcomes of evict_lru: the map afterwards and the keys removed
evict_lru(es) ==
    IF DOMAIN es = {}
    THEN {[entries |-> es, evicted |-> {}]}
    ELSE {[entries |-> Without(es, k), evicted |-> {k}] : k \in lru_keys(es)}

insert_with_ttl(es, key, value, ttl, t, cap) ==
    LET made_room == IF Cardinality(DOMAIN es) >= cap
                     THEN evict_lru(es)
                     ELSE {[entries |-> es, evicted |-> {}]}
    IN {[entries |-> Put(r.entries, key, CacheEntry_new(value, ttl, t)),
         evicted |-> r.evicted] : r \in made_room}

insert(es, key, value, t, cap, ttl) == insert_with_ttl(es, key, value, ttl, t, cap)

remove(es, key) ==
    IF key \in DOMAIN es
    THEN [entries |-> Without(es, key), ret |-> Some(es[key].value)]
    ELSE [entries |-> es, ret |-> None]

clear(es) == [k \in {} |-> 0]

\* the sweep that also drops the entries that reach their expiry at t
cleanup_expired_at_deadline(es, t) ==
    LET kept == {k \in DOMAIN es : t < es[k].expires_at}
    IN [entries |-> [k \in kept |-> es[k]],
        ret |-> Cardinality(DOMAIN es) - Cardinality(kept)]

cleanup_expired(es, t) ==
    LET kept == {k \in DOMAIN es : ~is_expired(es[k], t)}
    IN [entries |-> [k \in kept |-> es[k]],
        ret |-> Cardinality(DOMAIN es) - Cardinality(kept)]

RECURSIVE SumHits(_, _)
SumHits(es, keys) ==
    IF keys = {} THEN 0
    ELSE LET k == CHOOSE x \in keys : TRUE
         IN es[k].hit_count + SumHits(es, keys \ {k})

\* stats that counts only the unexpired entries as resident
stats_valid_only(es, t, cap) ==
    LET expired == Cardinality({k \in DOMAIN es : is_expired(es[k], t)})
    IN [total_entries |-> Cardinality(DOMAIN es) - expired,
        expired_entries |-> expired,
        valid_entries |-> Cardinality(DOMAIN es) - expired,
        total_hits |-> SumHits(es, DOMAIN es),
        max_size |-> cap]

stats(es, t, cap) ==
    LET expired == Cardinality({k \in DOMAIN es : is_expired(es[k], t)})
    IN [total_entries |-> Cardinality(DOMAIN es),
        expired_entries |-> expired,
        valid_entries |-> Cardinality(DOMAIN es) - expired,
        total_hits |-> SumHits(es, DOMAIN es),
        max_size |-> cap]

(* The critical sections as the resolver meets them: self.entries.lock()
   fails once a thread has panicked while it held the lock *)

\* get answers None when the lock cannot be taken
lock_get(es, key, t) ==
    IF poisoned THEN [entries |-> es, ret |-> None] ELSE get(es, key, t)

\* an insert that reports success and stores nothing
\* the possible outcomes of insert(key, value): CacheError when the lock
\* cannot be taken; a panic inside the critical section, after the eviction,
\* when now + ttl overflows; the entry stored otherwise
lock_insert_skip(es, key, value, t, cap, ttl) ==
    {[entries |-> es, poisoned |-> poisoned, panicked |-> FALSE, ret |-> Ok(<<>>)]}

\* an insert that leaves the entry of a key that is already resident
lock_insert_keep_first(es, key, value, t, cap, ttl) ==
    IF poisoned
    THEN {[entries |-> es, poisoned |-> TRUE, panicked |-> FALSE,
           ret |-> Err(CacheError)]}
    ELSE IF key \in DOMAIN es
         THEN {[entries |-> es, poisoned |-> FALSE, panicked |-> FALSE, ret |-> Ok(<<>>)]}
         ELSE {[entries |-> r.entries, poisoned |-> FALSE, panicked |-> FALSE,
                ret |-> Ok(<<>>)] :
                 r \in insert(es, key, value, t, cap, ttl)}

lock_insert(es, key, value, t, cap, ttl) ==
    IF poisoned
    THEN {[entries |-> es, poisoned |-> TRUE, panicked |-> FALSE,
           ret |-> Err(CacheError)]}
    ELSE IF checked_add(t, ttl) = None
         THEN {[entries |-> r.entries, poisoned |-> TRUE, panicked |-> TRUE,
                ret |-> Err(CacheError)] :
                 r \in IF Cardinality(DOMAIN es) >= cap
                       THEN evict_lru(es)
                       ELSE {[entries |-> es, evicted |-> {}]}}
         ELSE {[entries |-> r.entries, poisoned |-> FALSE, panicked |-> FALSE,
                ret |-> Ok(<<>>)] :
                 r \in insert(es, key, value, t, cap, ttl)}

\* clear and cleanup_expired leave the map alone when the lock cannot be taken
lock_clear(es) == IF poisoned THEN es ELSE clear(es)

lock_cleanup_expired(es, t) == IF poisoned THEN es ELSE cleanup_expired(es, t).entries

----------------------------------------------------------------------------
(* The cache driven directly through its API *)

CacheKeys == {package_key(PkgAB), package_key(PkgCD), type_key(TypeAB)}

NoCalls == [p \in {} |-> 0]

\* no call returned in the last step
NoOut == [caller |-> 0]

InitCache ==
    /\ entries = EmptyMap
    /\ now = 0
    /\ max_size \in 0..MaxCap
    /\ default_ttl = MaxTtl
    /\ last = [op |-> "new"]
    /\ ins = EmptyMap
    /\ poisoned = FALSE
    /\ permits = 0
    /\ overrides = None
    /\ max_concurrent_requests = 0
    /\ calls = NoCalls
    /\ started = 0
    /\ out = NoOut

\* the history of a key ends when the key leaves the entry map
Forget(h, keys) == [k \in DOMAIN h \ keys |-> h[k]]

Tick ==
    /\ now < MaxTime
    /\ now' = now + 1
    /\ last' = [op |-> "tick"]
    /\ out' = NoOut
    /\ UNCHANGED <<entries, max_size, default_ttl, ins, poisoned, resolver_vars>>

Get(key) ==
    /\ (key \in DOMAIN entries /\ ~is_expired(entries[key], now))
          => entries[key].hit_count < MaxHits
    /\ entries' = get(entries, key, now).entries
    /\ last' = [op |-> "get", key |-> key, ret |-> get(entries, key, now).ret,
                purged |-> key \in DOMAIN entries /\ key \notin DOMAIN entries']
    /\ ins' = Forget(ins, DOMAIN entries \ DOMAIN entries')
    /\ out' = NoOut
    /\ UNCHANGED <<now, max_size, default_ttl, poisoned, resolver_vars>>

InsertWithTtl(key, value, ttl) ==
    \E r \in insert_with_ttl(entries, key, value, ttl, now, max_size) :
        /\ entries' = r.entries
        /\ last' = [op |-> "insert", key |-> key, evicted |-> r.evicted]
        /\ ins' = Put(Forget(ins, r.evicted), key, [t |-> now, d |-> ttl, v |-> value])
        /\ out' = NoOut
        /\ UNCHANGED <<now, max_size, default_ttl, poisoned, resolver_vars>>

Insert(key, value) ==
    \E r \in insert(entries, key, value, now, max_size, default_ttl) :
        /\ entries' = r.entries
        /\ last' = [op |-> "insert", key |-> key, evicted |-> r.evicted]
        /\ ins' = Put(Forget(ins, r.evicted), key,
                      [t |-> now, d |-> default_ttl, v |-> value])
        /\ out' = NoOut
        /\ UNCHANGED <<now, max_size, default_ttl, poisoned, resolver_vars>>

Remove(key) ==
    /\ entries' = remove(entries, key).entries
    /\ last' = [op |-> "remove", key |-> key, ret |-> remove(entries, key).ret]
    /\ ins' = Forget(ins, {key})
    /\ out' = NoOut
    /\ UNCHANGED <<now, max_size, default_ttl, poisoned, resolver_vars>>

Clear ==
    /\ entries' = clear(entries)
    /\ last' = [op |-> "clear"]
    /\ ins' = EmptyMap
    /\ out' = NoOut
    /\ UNCHANGED <<now, max_size, default_ttl, poisoned, resolver_vars>>

CleanupExpired ==
    /\ entries' = cleanup_expired(entries, now).entries
    /\ last' = [op |-> "cleanup", ret |-> cleanup_expired(entries, now).ret]
    /\ ins' = Forget(ins, DOMAIN entries \ DOMAIN entries')
    /\ out' = NoOut
    /\ UNCHANGED <<now, max_size, default_ttl, poisoned, resolver_vars>>

Stats ==
    /\ last' = [op |-> "stats", ret |-> stats(entries, now, max_size)]
    /\ out' = NoOut
    /\ UNCHANGED <<entries, now, max_size, default_ttl, ins, poisoned, resolver_vars>>

NextCache ==
    \/ Tick
    \/ \E key \in CacheKeys : Get(key)
    \/ \E key \in CacheKeys, value \in Values, ttl \in 0..MaxTtl :
          InsertWithTtl(key, value, ttl)
    \/ \E key \in CacheKeys, value \in Values : Insert(key, value)
    \/ \E key \in CacheKeys : Remove(key)
    \/ Clear
    \/ CleanupExpired
    \/ Stats

SpecCache == InitCache /\ [][NextCache]_vars

----------------------------------------------------------------------------
(* MvrResolver (resolver.rs) *)

NumCallers == 2
MaxBatch == 2
MaxPermits == 2
MaxCalls == 2

\* MvrCache::new(config.cache_ttl, 1000)
ResolverMaxSize == 1000

Callers == 1..NumCallers

BadPkg == <<"@", "a">>
BadType == <<"@", "a", "/", "b">>
TypeCD == <<"@", "c", "/", "d", ":", ":", "m", ":", ":", "T">>

Inputs(kind) ==
    IF kind = "package" THEN {PkgAB, PkgCD, BadPkg} ELSE {TypeAB, TypeCD, BadType}

BatchInputs(kind) == UNION {[1..n -> Inputs(kind)] : n \in 0..MaxBatch}

\* MvrOverrides built with with_package / with_type, which accept any string
OverrideTable ==
    [packages |-> [n \in {PkgAB, BadPkg} |-> "0x9"],
     types |-> [n \in {TypeAB, BadType} |-> "0x9"]]

validate(kind, name) ==
    IF kind = "package" THEN validate_package_name(name) ELSE validate_type_name(name)

cache_key(kind, name) ==
    IF kind = "package" THEN package_key(name) ELSE type_key(name)

\* if let Some(overrides) = &self.config.overrides { overrides.<kind>.get(name) }
override_get(ov, kind, name) ==
    IF ov = None
    THEN None
    ELSE LET table == IF kind = "package" THEN ov[1].packages ELSE ov[1].types
         IN IF name \in DOMAIN table THEN Some(table[name]) ELSE None

Idle == NewCall("package", FALSE, <<>>)

Finish(call, result) == [call EXCEPT !.pc = "done", !.ret = Some(result)]

\* the call ends without a result
Abort(call, how) == [call EXCEPT !.pc = how]

Ended == {"done", "cancelled", "panicked"}

\* resolve_package / resolve_type up to the fetch: validation, overrides, cache
\* the lookup with the cache consulted before the override table
resolve_lookup_cache_first(es, ov, kind, name, t) ==
    LET valid == validate(kind, name)
        over == override_get(ov, kind, name)
        cached == lock_get(es, cache_key(kind, name), t)
    IN IF ~valid.ok
       THEN [entries |-> es, ret |-> Some(valid), fetch |-> FALSE]
       ELSE IF cached.ret # None
            THEN [entries |-> cached.entries, ret |-> Some(Ok(cached.ret[1])),
                  fetch |-> FALSE]
            ELSE IF over # None
                 THEN [entries |-> cached.entries, ret |-> Some(Ok(over[1])),
                       fetch |-> FALSE]
                 ELSE [entries |-> cached.entries, ret |-> None, fetch |-> TRUE]

\* the lookup with the override table consulted before validation
resolve_lookup_override_first(es, ov, kind, name, t) ==
    LET valid == validate(kind, name)
        over == override_get(ov, kind, name)
        cached == lock_get(es, cache_key(kind, name), t)
    IN IF over # None
       THEN [entries |-> es, ret |-> Some(Ok(over[1])), fetch |-> FALSE]
       ELSE IF ~valid.ok
            THEN [entries |-> es, ret |-> Some(valid), fetch |-> FALSE]
            ELSE IF cached.ret # None
                 THEN [entries |-> cached.entries, ret |-> Some(Ok(cached.ret[1])),
                       fetch |-> FALSE]
                 ELSE [entries |-> cached.entries, ret |-> None, fetch |-> TRUE]

resolve_lookup(es, ov, kind, name, t) ==
    LET valid == validate(kind, name)
        over == override_get(ov, kind, name)
        cached == lock_get(es, cache_key(kind, name), t)
    IN IF ~valid.ok
       THEN [entries |-> es, ret |-> Some(valid), fetch |-> FALSE]
       ELSE IF over # None
            THEN [entries |-> es, ret |-> Some(Ok(over[1])), fetch |-> FALSE]
            ELSE IF cached.ret # None
                 THEN [entries |-> cached.entries, ret |-> Some(Ok(cached.ret[1])),
                       fetch |-> FALSE]
                 ELSE [entries |-> cached.entries, ret |-> None, fetch |-> TRUE]

\* what follows the classification loop of resolve_packages / resolve_types
\* the end of the loop that goes on to the fetch whatever is left
after_loop_always_fetch(call) ==
    IF call.pc = "loop" /\ call.i > Len(call.names)
    THEN [call EXCEPT !.pc = "acquire"]
    ELSE call

after_loop(call) ==
    IF call.pc = "loop" /\ call.i > Len(call.names)
    THEN IF call.to_fetch # <<>>
         THEN [call EXCEPT !.pc = "acquire"]
         ELSE Finish(call, Ok(call.results))
    ELSE call

\* one iteration of the loop `for &name in names` of resolve_packages /
\* resolve_types
\* the iteration with a result map that keeps only the latest override
batch_classify_last_only(es, ov, call, t) ==
    LET name == call.names[call.i]
        valid == validate(call.kind, name)
        over == override_get(ov, call.kind, name)
        cached == lock_get(es, cache_key(call.kind, name), t)
        next == [call EXCEPT !.i = @ + 1]
    IN IF ~valid.ok
       THEN [entries |-> es, call |-> Finish(call, valid)]
       ELSE IF over # None
            THEN [entries |-> es,
                  call |-> [next EXCEPT !.results = Put(EmptyMap, name, over[1])]]
            ELSE IF cached.ret # None
                 THEN [entries |-> cached.entries,
                       call |-> [next EXCEPT !.results = Put(@, name, cached.ret[1])]]
                 ELSE [entries |-> cached.entries,
                       call |-> [next EXCEPT !.to_fetch = Append(@, name)]]

batch_classify(es, ov, call, t) ==
    LET name == call.names[call.i]
        valid == validate(call.kind, name)
        over == override_get(ov, call.kind, name)
        cached == lock_get(es, cache_key(call.kind, name), t)
        next == [call EXCEPT !.i = @ + 1]
    IN IF ~valid.ok
       THEN [entries |-> es, call |-> Finish(call, valid)]
       ELSE IF over # None
            THEN [entries |-> es,
                  call |-> [next EXCEPT !.results = Put(@, name, over[1])]]
            ELSE IF cached.ret # None
                 THEN [entries |-> cached.entries,
                       call |-> [next EXCEPT !.results = Put(@, name, cached.ret[1])]]
                 ELSE [entries |-> cached.entries,
                       call |-> [next EXCEPT !.to_fetch = Append(@, name)]]

\* self.semaphore.acquire().await, then the request is built from the names
\* acquisition of one permit and one request for each name to fetch
acquire_per_name(available, call) ==
    [permits |-> available - Len(call.to_fetch),
     call |-> [call EXCEPT !.pc = "fetching", !.acquired = @ + Len(call.to_fetch),
                           !.sent = [k \in 1..Len(call.to_fetch) |-> <<call.to_fetch[k]>>]]]

acquire(available, call) ==
    [permits |-> available - 1,
     call |-> [call EXCEPT !.pc = "fetching", !.acquired = @ + 1,
                           !.sent = Append(@, call.to_fetch)]]

(* Responses of the registry, as the transport hands them to the resolver *)

Response(sent, status, retry_after, body) ==
    [sent |-> sent, status |-> status, retry_after |-> retry_after, body |-> body]

\* send() failed: no response
TransportFailure == Response(FALSE, 0, None, [form |-> "none"])

\* no response within config.timeout: the client gives up with its own error
TimedOut == Response(FALSE, 0, None, [form |-> "timeout"])

\* bodies of a 200 answer to a single fetch: a bare address of at least 42
\* characters, a JSON object with an address, one with a type_signature, and
\* text that is neither
SingleBodies ==
    {[form |-> f, v |-> "0x1"] : f \in {"address_text", "json_address", "json_type_signature"}}
      \cup {[form |-> "not_json"]}

SingleResponses ==
    {TransportFailure, TimedOut}
      \cup {Response(TRUE, 200, None, b) : b \in SingleBodies}
      \cup {Response(TRUE, 404, None, [form |-> "none"]),
            Response(TRUE, 429, None, [form |-> "none"]),
            Response(TRUE, 429, Some(5), [form |-> "none"]),
            Response(TRUE, 500, None, [form |-> "none"])}

RespNames(kind) == IF kind = "package" THEN {PkgAB, PkgCD} ELSE {TypeAB, TypeCD}

\* bodies of a 200 answer to a batch fetch: a BatchResolutionResponse whose
\* field for the kind is absent or is a map, or text that does not decode
BatchBodies(kind) ==
    {[form |-> "json", map |-> None], [form |-> "not_json"]}
      \cup {[form |-> "json", map |-> Some([n \in names |-> "0x1"])] :
              names \in SUBSET RespNames(kind)}

BatchResponses(kind) ==
    {TransportFailure, TimedOut}
      \cup {Response(TRUE, 200, None, b) : b \in BatchBodies(kind)}
      \cup {Response(TRUE, 429, Some(5), [form |-> "none"]),
            Response(TRUE, 500, None, [form |-> "none"])}

extract_package_address(body) ==
    IF body.form = "address_text"
    THEN Ok(body.v)
    ELSE IF body.form = "json_address" THEN Ok(body.v) ELSE Err(JsonError)

extract_type_signature(body) ==
    IF body.form = "json_type_signature" THEN Ok(body.v) ELSE Err(JsonError)

retry_after_or_60(resp) == IF resp.retry_after = None THEN 60 ELSE resp.retry_after[1]

\* fetch_package_from_api after the permit: the outcome for a response
\* the fetch that resolves a name the registry does not know to a default
fetch_package_from_api_default(resp, package_name) ==
    IF ~resp.sent THEN Err(HttpError)
    ELSE IF resp.status = 200 THEN extract_package_address(resp.body)
    ELSE IF resp.status = 404 THEN Ok("0x0")
    ELSE IF resp.status = 429 THEN Err(RateLimitExceeded(retry_after_or_60(resp)))
    ELSE Err(ServerError(resp.status))

fetch_package_from_api(resp, package_name) ==
    IF ~resp.sent THEN Err(HttpError)
    ELSE IF resp.status = 200 THEN extract_package_address(resp.body)
    ELSE IF resp.status = 404 THEN Err(PackageNotFound(package_name))
    ELSE IF resp.status = 429 THEN Err(RateLimitExceeded(retry_after_or_60(resp)))
    ELSE Err(ServerError(resp.status))

fetch_type_from_api(resp, type_name) ==
    IF ~resp.sent THEN Err(HttpError)
    ELSE IF resp.status = 200 THEN extract_type_signature(resp.body)
    ELSE IF resp.status = 404 THEN Err(TypeNotFound(type_name))
    ELSE IF resp.status = 429 THEN Err(RateLimitExceeded(retry_after_or_60(resp)))
    ELSE Err(ServerError(resp.status))

\* batch_fetch_packages / batch_fetch_types after the permit; response.json()
\* reports a body that does not decode as a reqwest error
\* a batch fetch that takes every failure for an empty answer
batch_fetch_swallow(resp) ==
    IF resp.sent /\ resp.status = 200 /\ resp.body.form = "json"
    THEN Ok(IF resp.body.map = None THEN EmptyMap ELSE resp.body.map[1])
    ELSE Ok(EmptyMap)

batch_fetch(resp) ==
    IF ~resp.sent THEN Err(HttpError)
    ELSE IF resp.status = 200
         THEN IF resp.body.form = "json"
              THEN Ok(IF resp.body.map = None THEN EmptyMap ELSE resp.body.map[1])
              ELSE Err(HttpError)
         ELSE Err(ServerError(resp.status))

\* str::splitn(2, pat): the string cut at the first occurrence of `pat`
splitn2(s, pat) ==
    IF Matches(s, pat) = {}
    THEN <<s>>
    ELSE LET i == CHOOSE m \in Matches(s, pat) : \A n \in Matches(s, pat) : m <= n
         IN <<SubSeq(s, 1, i - 1), SubSeq(s, i + Len(pat), Len(s))>>

\* format!("{}::{}", package_address, module_function); the address is one
\* element of the string
format_target(package_address, module_function) ==
    <<package_address, ":", ":">> \o module_function

\* what resolve_mvr_target makes of the result of its resolve_package call:
\* `?` hands an error on, a value is formatted with the rest of the target
with_target(call, result) ==
    IF call.target = None \/ ~result.ok
    THEN result
    ELSE Ok(format_target(result.v, splitn2(call.target[1], <<"/">>)[2]))

HitsBounded(es) == \A k \in DOMAIN es : es[k].hit_count <= MaxHits

Init ==
    /\ entries = EmptyMap
    /\ now = 0
    /\ max_size = ResolverMaxSize
    /\ default_ttl = MaxTtl
    /\ last = [op |-> "new"]
    /\ ins = EmptyMap
    /\ poisoned = FALSE
    /\ max_concurrent_requests \in 0..MaxPermits
    /\ permits = max_concurrent_requests
    /\ overrides = Some(OverrideTable)
    /\ calls = [p \in Callers |-> Idle]
    /\ started = 0
    /\ out = NoOut

cache_config == <<max_size, default_ttl, last, ins>>
resolver_config == <<overrides, max_concurrent_requests>>

\* The call of caller p moves on to `call`; a call that has ended leaves: its
\* record is `out` in the next state and the caller is free to call again.
Step(p, call) ==
    IF call.pc \in Ended
    THEN /\ calls' = [calls EXCEPT ![p] = Idle]
         /\ out' = [caller |-> p, call |-> call]
    ELSE /\ calls' = [calls EXCEPT ![p] = call]
         /\ out' = NoOut

\* resolve_package(name) / resolve_type(name) is called
ResolveSingle(p, kind, name) ==
    /\ calls[p].pc = "idle"
    /\ started < MaxCalls
    /\ started' = started + 1
    /\ LET r == resolve_lookup(entries, overrides, kind, name, now)
           call == NewCall(kind, FALSE, <<name>>)
       IN /\ HitsBounded(r.entries)
          /\ entries' = r.entries
          /\ Step(p, IF r.fetch
                     THEN [call EXCEPT !.pc = "acquire", !.to_fetch = <<name>>]
                     ELSE [call EXCEPT !.pc = "done", !.ret = r.ret])
    /\ UNCHANGED <<now, cache_config, poisoned, permits, resolver_config>>

\* resolve_packages(names) / resolve_types(names) is called
ResolveBatch(p, kind, names) ==
    /\ calls[p].pc = "idle"
    /\ started < MaxCalls
    /\ started' = started + 1
    /\ Step(p, after_loop([NewCall(kind, TRUE, names) EXCEPT !.pc = "loop"]))
    /\ UNCHANGED <<entries, now, cache_config, poisoned, permits, resolver_config>>

BatchStep(p) ==
    /\ calls[p].pc = "loop"
    /\ LET r == batch_classify(entries, overrides, calls[p], now)
       IN /\ HitsBounded(r.entries)
          /\ entries' = r.entries
          /\ Step(p, after_loop(r.call))
    /\ UNCHANGED <<now, cache_config, poisoned, permits, resolver_config, started>>

\* the acquisition that fails when no permit is available
Acquire_fail_saturated(p) ==
    /\ calls[p].pc = "acquire"
    /\ IF permits > 0
       THEN /\ permits' = acquire(permits, calls[p]).permits
            /\ Step(p, acquire(permits, calls[p]).call)
       ELSE /\ permits' = permits
            /\ Step(p, Finish(calls[p], Err([kind |-> "TooManyConcurrentRequests",
                                             arg |-> max_concurrent_requests])))
    /\ UNCHANGED <<entries, now, cache_config, poisoned, resolver_config, started>>

\* the acquisition that does not wait for a permit to be available
Acquire_no_wait(p) ==
    /\ calls[p].pc = "acquire"
    /\ permits' = acquire(permits, calls[p]).permits
    /\ Step(p, acquire(permits, calls[p]).call)
    /\ UNCHANGED <<entries, now, cache_config, poisoned, resolver_config, started>>

Acquire(p) ==
    /\ calls[p].pc = "acquire"
    /\ permits > 0
    /\ permits' = acquire(permits, calls[p]).permits
    /\ Step(p, acquire(permits, calls[p]).call)
    /\ UNCHANGED <<entries, now, cache_config, poisoned, resolver_config, started>>

\* the future of the call is dropped at an await point: while it waits for a
\* permit, or while it holds one and waits for the response; dropping the
\* future drops the permit it holds
\* the cancellation that takes the held permit along
Cancel_keeps_permit(p) ==
    /\ calls[p].pc \in {"acquire", "fetching"}
    /\ permits' = permits
    /\ Step(p, Abort(calls[p], "cancelled"))
    /\ UNCHANGED <<entries, now, cache_config, poisoned, resolver_config, started>>

Cancel(p) ==
    /\ calls[p].pc \in {"acquire", "fetching"}
    /\ permits' = IF calls[p].pc = "fetching" THEN permits + 1 ELSE permits
    /\ Step(p, Abort(calls[p], "cancelled"))
    /\ UNCHANGED <<entries, now, cache_config, poisoned, resolver_config, started>>

\* the single fetch ends: the permit is dropped, then a resolved value is
\* cached and, if that succeeds, returned
\* the end of the fetch that gives the permit back only on success
FetchRespond_leak_on_error(p, resp) ==
    /\ calls[p].pc = "fetching"
    /\ ~calls[p].batch
    /\ LET name == calls[p].names[1]
           call == [calls[p] EXCEPT !.resp = Some(resp)]
           result == IF call.kind = "package"
                     THEN fetch_package_from_api(resp, name)
                     ELSE fetch_type_from_api(resp, name)
       IN IF result.ok
          THEN \E r \in lock_insert(entries, cache_key(call.kind, name), result.v,
                                    now, max_size, default_ttl) :
                   /\ permits' = permits + 1
                   /\ entries' = r.entries
                   /\ poisoned' = r.poisoned
                   /\ Step(p, IF r.panicked THEN Abort(call, "panicked")
                              ELSE IF r.ret.ok THEN Finish(call, with_target(call, result))
                              ELSE Finish(call, r.ret))
          ELSE /\ permits' = permits
               /\ entries' = entries
               /\ poisoned' = poisoned
               /\ Step(p, Finish(call, result))
    /\ UNCHANGED <<now, cache_config, resolver_config, started>>

FetchRespond(p, resp) ==
    /\ calls[p].pc = "fetching"
    /\ ~calls[p].batch
    /\ permits' = permits + 1
    /\ LET name == calls[p].names[1]
           call == [calls[p] EXCEPT !.resp = Some(resp)]
           result == IF call.kind = "package"
                     THEN fetch_package_from_api(resp, name)
                     ELSE fetch_type_from_api(resp, name)
       IN IF result.ok
          THEN \E r \in lock_insert(entries, cache_key(call.kind, name), result.v,
                                    now, max_size, default_ttl) :
                   /\ entries' = r.entries
                   /\ poisoned' = r.poisoned
                   /\ Step(p, IF r.panicked THEN Abort(call, "panicked")
                              ELSE IF r.ret.ok THEN Finish(call, with_target(call, result))
                              ELSE Finish(call, r.ret))
          ELSE /\ entries' = entries
               /\ poisoned' = poisoned
               /\ Step(p, Finish(call, result))
    /\ UNCHANGED <<now, cache_config, resolver_config, started>>

\* the batch fetch ends: the permit is dropped
BatchRespond(p, resp) ==
    /\ calls[p].pc = "fetching"
    /\ calls[p].batch
    /\ resp \in BatchResponses(calls[p].kind)
    /\ permits' = permits + 1
    /\ LET result == batch_fetch(resp)
           call == [calls[p] EXCEPT !.resp = Some(resp)]
       IN Step(p, IF ~result.ok
                  THEN Finish(call, result)
                  ELSE IF result.v = EmptyMap
                       THEN Finish(call, Ok(call.results))
                       ELSE [call EXCEPT !.pc = "storing", !.fetched = result.v])
    /\ UNCHANGED <<entries, now, cache_config, poisoned, resolver_config, started>>

\* one iteration of `for (name, value) in fetched`, in the map's arbitrary order
StoreStep(p, name) ==
    /\ calls[p].pc = "storing"
    /\ name \in DOMAIN calls[p].fetched
    /\ \E r \in lock_insert(entries, cache_key(calls[p].kind, name),
                            calls[p].fetched[name], now, max_size, default_ttl) :
           /\ entries' = r.entries
           /\ poisoned' = r.poisoned
           /\ LET stored == [calls[p] EXCEPT
                                !.results = Put(@, name, calls[p].fetched[name]),
                                !.fetched = Without(@, name)]
              IN Step(p, IF r.panicked THEN Abort(calls[p], "panicked")
                         ELSE IF ~r.ret.ok THEN Finish(calls[p], r.ret)
                         ELSE IF stored.fetched = EmptyMap
                              THEN Finish(stored, Ok(stored.results))
                              ELSE stored)
    /\ UNCHANGED <<now, cache_config, permits, resolver_config, started>>

ClearCache ==
    /\ entries' = lock_clear(entries)
    /\ out' = NoOut
    /\ UNCHANGED <<now, cache_config, poisoned, resolver_vars>>

CleanupExpiredCache ==
    /\ entries' = lock_cleanup_expired(entries, now)
    /\ out' = NoOut
    /\ UNCHANGED <<now, cache_config, poisoned, resolver_vars>>

Kinds == {"package", "type"}

Next ==
    \/ Tick
    \/ \E p \in Callers, kind \in Kinds : \E name \in Inputs(kind) :
          ResolveSingle(p, kind, name)
    \/ \E p \in Callers, kind \in Kinds : \E names \in BatchInputs(kind) :
          ResolveBatch(p, kind, names)
    \/ \E p \in Callers : BatchStep(p)
    \/ \E p \in Callers : Acquire(p)
    \/ \E p \in Callers : Cancel(p)
    \/ \E p \in Callers, resp \in SingleResponses : FetchRespond(p, resp)
    \/ \E p \in Callers, kind \in Kinds : \E resp \in BatchResponses(kind) :
          BatchRespond(p, resp)
    \/ \E p \in Callers, kind \in Kinds : \E name \in RespNames(kind) :
          StoreStep(p, name)
    \/ ClearCache
    \/ CleanupExpiredCache

Spec == Init /\ [][Next]_vars

\* The resolver configured with a cache_ttl that cannot be added to the clock:
\* the first insert panics inside the critical section and poisons the lock
InitPoison ==
    /\ entries = EmptyMap
    /\ now = 0
    /\ max_size = ResolverMaxSize
    /\ default_ttl = DurationMax
    /\ last = [op |-> "new"]
    /\ ins = EmptyMap
    /\ poisoned = FALSE
    /\ max_concurrent_requests = MaxPermits
    /\ permits = max_concurrent_requests
    /\ overrides = Some(OverrideTable)
    /\ calls = [p \in Callers |-> Idle]
    /\ started = 0
    /\ out = NoOut

SpecPoison == InitPoison /\ [][Next]_vars

\* The resolver configured with an override for every grammatical name: no
\* call reaches the cache or the registry
FullTable ==
    [packages |-> (PkgAB :> "0x9") @@ (PkgCD :> "0x8"),
     types |-> (TypeAB :> "0x9") @@ (TypeCD :> "0x8")]

InitOv ==
    /\ entries = EmptyMap
    /\ now = 0
    /\ max_size = ResolverMaxSize
    /\ default_ttl = MaxTtl
    /\ last = [op |-> "new"]
    /\ ins = EmptyMap
    /\ poisoned = FALSE
    /\ max_concurrent_requests \in 0..MaxPermits
    /\ permits = max_concurrent_requests
    /\ overrides = Some(FullTable)
    /\ calls = [p \in Callers |-> Idle]
    /\ started = 0
    /\ out = NoOut

NextOv ==
    \/ Tick
    \/ \E p \in Callers, kind \in Kinds : \E name \in Inputs(kind) :
          ResolveSingle(p, kind, name)
    \/ \E p \in Callers, kind \in Kinds : \E names \in BatchInputs(kind) :
          ResolveBatch(p, kind, names)
    \/ \E p \in Callers : BatchStep(p)

SpecOv == InitOv /\ [][NextOv]_vars


\* The resolver without overrides, asked one call after the other to resolve
\* the same strings as packages and as types ("@c/d::m::T" passes both
\* validators).  The registry answers a package with an address and a type
\* with a type signature.
KeyInputs == {TypeAB, TypeCD}

KeyResponses ==
    {Response(TRUE, 200, None, [form |-> "json_address", v |-> "0xA"]),
     Response(TRUE, 200, None, [form |-> "json_type_signature", v |-> "0xA::m::T"]),
     Response(TRUE, 404, None, [form |-> "none"])}

InitKeys ==
    /\ entries = EmptyMap
    /\ now = 0
    /\ max_size = ResolverMaxSize
    /\ default_ttl = MaxTtl
    /\ last = [op |-> "new"]
    /\ ins = EmptyMap
    /\ poisoned = FALSE
    /\ max_concurrent_requests = MaxPermits
    /\ permits = max_concurrent_requests
    /\ overrides = None
    /\ calls = [p \in Callers |-> Idle]
    /\ started = 0
    /\ out = NoOut

\* a call made when no other call is running
ResolveSequential(p, kind, name) ==
    /\ \A q \in Callers : calls[q].pc = "idle"
    /\ ResolveSingle(p, kind, name)

NextKeys ==
    \/ Tick
    \/ \E p \in Callers, kind \in Kinds, name \in KeyInputs :
          ResolveSequential(p, kind, name)
    \/ \E p \in Callers : Acquire(p)
    \/ \E p \in Callers, resp \in KeyResponses : FetchRespond(p, resp)

SpecKeys == InitKeys /\ [][NextKeys]_vars


----------------------------------------------------------------------------
(* The validators applied to arbitrary strings *)

MaxNameLen == 8

NameChars == {"@", "/", ":", "a"}

NameStrings == UNION {[1..n -> NameChars] : n \in 0..MaxNameLen}

InitValidate ==
    /\ entries = EmptyMap
    /\ now = 0
    /\ max_size = 0
    /\ default_ttl = 0
    /\ last \in {[op |-> "name", name |-> s] : s \in NameStrings}
    /\ ins = EmptyMap
    /\ poisoned = FALSE
    /\ permits = 0
    /\ overrides = None
    /\ max_concurrent_requests = 0
    /\ calls = NoCalls
    /\ started = 0
    /\ out = NoOut

ValidatePackageName ==
    /\ last.op = "name"
    /\ last' = [op |-> "validate_package_name", name |-> last.name,
                ret |-> validate_package_name(last.name)]
    /\ UNCHANGED <<entries, now, max_size, default_ttl, ins, poisoned, resolver_vars, out>>

ValidateTypeName ==
    /\ last.op = "name"
    /\ last' = [op |-> "validate_type_name", name |-> last.name,
                ret |-> validate_type_name(last.name)]
    /\ UNCHANGED <<entries, now, max_size, default_ttl, ins, poisoned, resolver_vars, out>>

NextValidate == ValidatePackageName \/ ValidateTypeName

SpecValidate == InitValidate /\ [][NextValidate]_vars


----------------------------------------------------------------------------
(* The predicates of MvrError (error.rs:55-98) applied to arbitrary errors *)

Timeout(timeout_secs) == [kind |-> "Timeout", arg |-> timeout_secs]
ConfigError == [kind |-> "ConfigError", arg |-> 0]
TooManyConcurrentRequests(max_concurrent) ==
    [kind |-> "TooManyConcurrentRequests", arg |-> max_concurrent]

MaxRetryAfter == 3

\* u16 status codes around the limits the guards test
StatusCodes == {0, 200, 399, 400, 404, 429, 499, 500, 503, 65535}

\* The guard of an arm reads `*status_code`.  Only the ServerError alternative
\* of the or-pattern binds status_code; the guard stands after the whole
\* or-pattern, so for a value matched by another alternative there is no
\* status_code to read (rustc rejects such an arm, E0408): any u16.
status_code_of(e) == IF e.kind = "ServerError" THEN {e.arg} ELSE StatusCodes

\* matches!(self, HttpError(_) | Timeout { .. } | ServerError { status_code, .. }
\*          if *status_code >= 500): the results the arm can give
is_retryable(e) ==
    {e.kind \in {"HttpError", "Timeout", "ServerError"} /\ status_code >= 500 :
       status_code \in status_code_of(e)}

is_rate_limited(e) == e.kind = "RateLimitExceeded"

\* matches!(self, PackageNotFound(_) | TypeNotFound(_) | InvalidPackageName(_) |
\*          InvalidTypeName(_) | ServerError { status_code, .. }
\*          if *status_code >= 400 && *status_code < 500)
is_client_error(e) ==
    {/\ e.kind \in {"PackageNotFound", "TypeNotFound", "InvalidPackageName",
                    "InvalidTypeName", "ServerError"}
     /\ status_code >= 400 /\ status_code < 500 :
       status_code \in status_code_of(e)}

\* the delay in seconds
retry_delay(e) ==
    IF e.kind = "RateLimitExceeded" THEN Some(e.arg)
    ELSE IF e.kind \in {"HttpError", "Timeout"} THEN Some(1)
    ELSE IF e.kind = "ServerError" /\ e.arg >= 500 THEN Some(2)
    ELSE None

Errors ==
    {HttpError, JsonError, CacheError, ConfigError}
      \cup {PackageNotFound(n) : n \in {PkgAB, PkgCD}}
      \cup {TypeNotFound(n) : n \in {TypeAB, TypeCD}}
      \cup {InvalidPackageName(n) : n \in {BadPkg, <<>>}}
      \cup {InvalidTypeName(n) : n \in {BadType, <<>>}}
      \cup {Timeout(t) : t \in 0..MaxRetryAfter}
      \cup {RateLimitExceeded(t) : t \in 0..MaxRetryAfter}
      \cup {ServerError(c) : c \in StatusCodes}
      \cup {TooManyConcurrentRequests(n) : n \in 0..MaxPermits}

InitErrors ==
    /\ entries = EmptyMap
    /\ now = 0
    /\ max_size = 0
    /\ default_ttl = 0
    /\ last \in {[op |-> "error", err |-> e] : e \in Errors}
    /\ ins = EmptyMap
    /\ poisoned = FALSE
    /\ permits = 0
    /\ overrides = None
    /\ max_concurrent_requests = 0
    /\ calls = NoCalls
    /\ started = 0
    /\ out = NoOut

IsRetryable ==
    /\ last.op = "error"
    /\ \E r \in is_retryable(last.err) :
          last' = [op |-> "is_retryable", err |-> last.err, ret |-> r]
    /\ UNCHANGED <<entries, now, max_size, default_ttl, ins, poisoned, resolver_vars, out>>

IsRateLimited ==
    /\ last.op = "error"
    /\ last' = [op |-> "is_rate_limited", err |-> last.err,
                ret |-> is_rate_limited(last.err)]
    /\ UNCHANGED <<entries, now, max_size, default_ttl, ins, poisoned, resolver_vars, out>>

IsClientError ==
    /\ last.op = "error"
    /\ \E r \in is_client_error(last.err) :
          last' = [op |-> "is_client_error", err |-> last.err, ret |-> r]
    /\ UNCHANGED <<entries, now, max_size, default_ttl, ins, poisoned, resolver_vars, out>>

RetryDelay ==
    /\ last.op = "error"
    /\ last' = [op |-> "retry_delay", err |-> last.err, ret |-> retry_delay(last.err)]
    /\ UNCHANGED <<entries, now, max_size, default_ttl, ins, poisoned, resolver_vars, out>>

NextErrors == IsRetryable \/ IsRateLimited \/ IsClientError \/ RetryDelay

SpecErrors == InitErrors /\ [][NextErrors]_vars


----------------------------------------------------------------------------
(* resolve_mvr_target (resolver.rs:439-455) *)

Target0x == <<"0", "x", "1", ":", ":", "m", ":", ":", "f">>
TargetNoSlash == <<"@", "a", ":", ":", "m">>

Targets == {Target0x, TargetNoSlash, TypeAB, TypeCD, PkgAB}

\* resolve_mvr_target(resolver, target) is called: the target is returned or
\* refused at once, or its part before the first '/' goes to resolve_package
ResolveMvrTarget(p, target) ==
    /\ calls[p].pc = "idle"
    /\ started < MaxCalls
    /\ started' = started + 1
    /\ LET parts == splitn2(target, <<"/">>)
           direct == [NewCall("package", FALSE, <<>>) EXCEPT !.target = Some(target)]
       IN IF ~starts_with(target, "@")
          THEN /\ entries' = entries
               /\ Step(p, Finish(direct, Ok(target)))
          ELSE IF Len(parts) # 2
               THEN /\ entries' = entries
                    /\ Step(p, Finish(direct, Err(InvalidPackageName(target))))
               ELSE LET package_part == parts[1]
                        r == resolve_lookup(entries, overrides, "package",
                                            package_part, now)
                        call == [NewCall("package", FALSE, <<package_part>>)
                                   EXCEPT !.target = Some(target)]
                    IN /\ HitsBounded(r.entries)
                       /\ entries' = r.entries
                       /\ Step(p, IF r.fetch
                                  THEN [call EXCEPT !.pc = "acquire",
                                                    !.to_fetch = <<package_part>>]
                                  ELSE Finish(call, with_target(call, r.ret[1])))
    /\ UNCHANGED <<now, cache_config, poisoned, permits, resolver_config>>

NextTarget ==
    \/ Tick
    \/ \E p \in Callers, target \in Targets : ResolveMvrTarget(p, target)
    \/ \E p \in Callers, name \in Inputs("package") : ResolveSingle(p, "package", name)
    \/ \E p \in Callers : Acquire(p)
    \/ \E p \in Callers, resp \in SingleResponses : FetchRespond(p, resp)

SpecTarget == Init /\ [][NextTarget]_vars


----------------------------------------------------------------------------
(* Concurrent single resolutions against a registry whose answers differ *)

FlightResponses ==
    {Response(TRUE, 200, None, [form |-> "address_text", v |-> "0x1"]),
     Response(TRUE, 200, None, [form |-> "address_text", v |-> "0x2"]),
     Response(TRUE, 404, None, [form |-> "none"])}

NextFlight ==
    \/ Tick
    \/ \E p \in Callers, name \in Inputs("package") : ResolveSingle(p, "package", name)
    \/ \E p \in Callers : Acquire(p)
    \/ \E p \in Callers, resp \in FlightResponses : FetchRespond(p, resp)

SpecFlight == Init /\ [][NextFlight]_vars


----------------------------------------------------------------------------
(* MvrCache shared by threads, one statement at a time.  Each operation takes
   self.entries.lock() and keeps the MutexGuard until it returns; the lock is
   held by a thread exactly while the thread is between its lock and its
   return.  `calls` holds the operation each thread is running: at_lock is the
   entry map the thread found when it took the lock, t the clock it read. *)

MaxOps == 4

AtomicKeys == {package_key(PkgAB), package_key(PkgCD)}

IdleOp ==
    [pc |-> "idle", op |-> "none", key |-> <<>>, value |-> "", t |-> 0,
     at_lock |-> EmptyMap, tmp |-> 0, ret |-> None]

\* the statements a thread executes with the lock held
Locked ==
    {"get_find", "get_access", "insert_evict", "insert_put", "remove", "clear",
     "cleanup_len", "cleanup_retain", "return"}

FirstStatement(op) ==
    IF op = "get" THEN "get_find"
    ELSE IF op = "insert" THEN "insert_evict"
    ELSE IF op = "cleanup_expired" THEN "cleanup_len"
    ELSE op

InitAtomic ==
    /\ entries = EmptyMap
    /\ now = 0
    /\ max_size \in 1..MaxCap
    /\ default_ttl = MaxTtl
    /\ last = [op |-> "new"]
    /\ ins = EmptyMap
    /\ poisoned = FALSE
    /\ permits = 0
    /\ overrides = None
    /\ max_concurrent_requests = 0
    /\ calls = [p \in Callers |-> IdleOp]
    /\ started = 0
    /\ out = NoOut

atomic_frame == <<now, max_size, default_ttl, last, ins, poisoned, permits, overrides,
                  max_concurrent_requests>>

\* thread p calls an operation of the cache
CallOp(p, op, key, value) ==
    /\ calls[p].pc = "idle"
    /\ started < MaxOps
    /\ started' = started + 1
    /\ calls' = [calls EXCEPT ![p] = [IdleOp EXCEPT !.pc = "lock", !.op = op,
                                                   !.key = key, !.value = value]]
    /\ out' = NoOut
    /\ UNCHANGED <<entries, atomic_frame>>

\* the lock taken without waiting for the thread that holds it
Lock_no_exclusion(p) ==
    /\ calls[p].pc = "lock"
    /\ calls' = [calls EXCEPT ![p].pc = FirstStatement(calls[p].op),
                              ![p].t = now, ![p].at_lock = entries]
    /\ out' = NoOut
    /\ UNCHANGED <<entries, started, atomic_frame>>

\* self.entries.lock(): granted when no thread holds the guard
Lock(p) ==
    /\ calls[p].pc = "lock"
    /\ \A q \in Callers : calls[q].pc \notin Locked
    /\ calls' = [calls EXCEPT ![p].pc = FirstStatement(calls[p].op),
                              ![p].t = now, ![p].at_lock = entries]
    /\ out' = NoOut
    /\ UNCHANGED <<entries, started, atomic_frame>>

\* get: entries.get_mut(key), is_expired(), entries.remove(key); on a live
\* entry the thread has read hit_count for `hit_count += 1`
GetFind(p) ==
    /\ calls[p].pc = "get_find"
    /\ LET key == calls[p].key
       IN IF key \notin DOMAIN entries
          THEN /\ entries' = entries
               /\ calls' = [calls EXCEPT ![p].pc = "return", ![p].ret = None]
          ELSE IF is_expired(entries[key], calls[p].t)
               THEN /\ entries' = Without(entries, key)
                    /\ calls' = [calls EXCEPT ![p].pc = "return", ![p].ret = None]
               ELSE /\ entries' = entries
                    /\ calls' = [calls EXCEPT ![p].pc = "get_access",
                                              ![p].tmp = entries[key].hit_count]
    /\ out' = NoOut
    /\ UNCHANGED <<started, atomic_frame>>

\* get: entry.access() writes hit_count and last_accessed and clones the
\* value, through the reference get_mut gave
GetAccess(p) ==
    /\ calls[p].pc = "get_access"
    /\ calls[p].key \in DOMAIN entries
    /\ entries' = [entries EXCEPT ![calls[p].key].hit_count = calls[p].tmp + 1,
                                  ![calls[p].key].last_accessed = calls[p].t]
    /\ calls' = [calls EXCEPT ![p].pc = "return",
                              ![p].ret = Some(entries[calls[p].key].value)]
    /\ out' = NoOut
    /\ UNCHANGED <<started, atomic_frame>>

\* insert_with_ttl: if entries.len() >= self.max_size { self.evict_lru(..) }
InsertEvict(p) ==
    /\ calls[p].pc = "insert_evict"
    /\ \E r \in IF Cardinality(DOMAIN entries) >= max_size
                THEN evict_lru(entries)
                ELSE {[entries |-> entries, evicted |-> {}]} :
          entries' = r.entries
    /\ calls' = [calls EXCEPT ![p].pc = "insert_put"]
    /\ out' = NoOut
    /\ UNCHANGED <<started, atomic_frame>>

\* insert_with_ttl: entries.insert(key, CacheEntry::new(value, ttl))
InsertPut(p) ==
    /\ calls[p].pc = "insert_put"
    /\ entries' = Put(entries, calls[p].key,
                      CacheEntry_new(calls[p].value, default_ttl, calls[p].t))
    /\ calls' = [calls EXCEPT ![p].pc = "return", ![p].ret = Some(Ok(<<>>))]
    /\ out' = NoOut
    /\ UNCHANGED <<started, atomic_frame>>

RemoveStep(p) ==
    /\ calls[p].pc = "remove"
    /\ entries' = remove(entries, calls[p].key).entries
    /\ calls' = [calls EXCEPT ![p].pc = "return",
                              ![p].ret = remove(entries, calls[p].key).ret]
    /\ out' = NoOut
    /\ UNCHANGED <<started, atomic_frame>>

ClearStep(p) ==
    /\ calls[p].pc = "clear"
    /\ entries' = clear(entries)
    /\ calls' = [calls EXCEPT ![p].pc = "return", ![p].ret = Some(Ok(<<>>))]
    /\ out' = NoOut
    /\ UNCHANGED <<started, atomic_frame>>

\* cleanup_expired: let initial_size = entries.len()
CleanupLen(p) ==
    /\ calls[p].pc = "cleanup_len"
    /\ calls' = [calls EXCEPT ![p].pc = "cleanup_retain",
                              ![p].tmp = Cardinality(DOMAIN entries)]
    /\ out' = NoOut
    /\ UNCHANGED <<entries, started, atomic_frame>>

\* cleanup_expired: entries.retain(..); Ok(initial_size - entries.len())
CleanupRetain(p) ==
    /\ calls[p].pc = "cleanup_retain"
    /\ entries' = cleanup_expired(entries, calls[p].t).entries
    /\ calls' = [calls EXCEPT ![p].pc = "return",
                              ![p].ret = Some(calls[p].tmp - Cardinality(DOMAIN entries'))]
    /\ out' = NoOut
    /\ UNCHANGED <<started, atomic_frame>>

\* the operation returns and its guard is dropped
ReturnOp(p) ==
    /\ calls[p].pc = "return"
    /\ calls' = [calls EXCEPT ![p] = IdleOp]
    /\ out' = [caller |-> p, call |-> calls[p]]
    /\ UNCHANGED <<entries, started, atomic_frame>>

\* time passes
Elapse ==
    /\ now < MaxTime
    /\ now' = now + 1
    /\ out' = NoOut
    /\ UNCHANGED <<entries, max_size, default_ttl, last, ins, poisoned, resolver_vars>>

NextAtomic ==
    \/ Elapse
    \/ \E p \in Callers, key \in AtomicKeys : CallOp(p, "get", key, "")
    \/ \E p \in Callers, key \in AtomicKeys, value \in Values :
          CallOp(p, "insert", key, value)
    \/ \E p \in Callers, key \in AtomicKeys : CallOp(p, "remove", key, "")
    \/ \E p \in Callers : CallOp(p, "clear", <<>>, "")
    \/ \E p \in Callers : CallOp(p, "cleanup_expired", <<>>, "")
    \/ \E p \in Callers : Lock(p)
    \/ \E p \in Callers : GetFind(p)
    \/ \E p \in Callers : GetAccess(p)
    \/ \E p \in Callers : InsertEvict(p)
    \/ \E p \in Callers : InsertPut(p)
    \/ \E p \in Callers : RemoveStep(p)
    \/ \E p \in Callers : ClearStep(p)
    \/ \E p \in Callers : CleanupLen(p)
    \/ \E p \in Callers : CleanupRetain(p)
    \/ \E p \in Callers : ReturnOp(p)

SpecAtomic == InitAtomic /\ [][NextAtomic]_vars


----------------------------------------------------------------------------
(* The resolver under fair scheduling *)

\* what a step of a call changes: the permits, or the call's position, its
\* place in the loop over the names, or the number of values left to store
progress_vars ==
    <<permits, [p \in Callers |-> <<calls[p].pc, calls[p].i,
                                    Cardinality(DOMAIN calls[p].fetched)>>]>>

\* The runtime polls every task that can make a step; the semaphore serves
\* its waiters in the order they came, so a call that waits is not passed
\* over for ever while permits are given back (strong fairness of Acquire);
\* every request that was sent gets a response, a failure or a timeout.
Fairness ==
    \A p \in Callers :
        /\ WF_progress_vars(BatchStep(p))
        /\ SF_progress_vars(Acquire(p))
        /\ WF_progress_vars(\E resp \in SingleResponses : FetchRespond(p, resp))
        /\ WF_progress_vars(\E kind \in Kinds : \E resp \in BatchResponses(kind) :
                               BatchRespond(p, resp))
        /\ WF_progress_vars(\E kind \in Kinds : \E name \in RespNames(kind) :
                               StoreStep(p, name))

SpecLive == Init /\ [][Next]_vars /\ Fairness

----------------------------------------------------------------------------
(* Claims about the cache, checked under SpecCache *)

\* C1: the number of resident entries never exceeds max_size, whatever
\* max_size was configured and whatever operations ran.  (Fails for
\* max_size = 0: insert_with_ttl stores the entry although evict_lru could
\* make no room.)
C1_CapacityBound == Cardinality(DOMAIN entries) <= max_size

\* C1 restricted to max_size >= 1, where the code keeps it.
C1_CapacityBoundPositive == max_size >= 1 => Cardinality(DOMAIN entries) <= max_size

\* C2: an insert that finds size >= max_size removes exactly one entry before
\* storing, and that entry has the minimal last_accessed of the entries
\* resident at that moment.  (Fails for max_size = 0 on the empty map, where
\* nothing is removed.)
C2_LruVictim ==
    [][(last'.op = "insert" /\ Cardinality(DOMAIN entries) >= max_size)
         => /\ Cardinality(last'.evicted) = 1
            /\ last'.evicted \subseteq lru_keys(entries)]_vars

\* C2 on a non-empty map: exactly one entry with minimal last_accessed goes.
C2_LruVictimNonEmpty ==
    [][(last'.op = "insert" /\ Cardinality(DOMAIN entries) >= max_size
          /\ DOMAIN entries # {})
         => /\ Cardinality(last'.evicted) = 1
            /\ last'.evicted \subseteq lru_keys(entries)
            /\ \A k \in last'.evicted, j \in DOMAIN entries :
                  entries[k].last_accessed <= entries[j].last_accessed]_vars

\* C3: a get of a key inserted at time t with TTL d (and not overwritten,
\* removed or evicted since) returns the inserted value when now < t + d, and
\* returns None and leaves the key out of the entry map when now > t + d.
C3_ExpiryEnforcement ==
    [][\A k \in CacheKeys :
         (last'.op = "get" /\ last'.key = k /\ k \in DOMAIN ins)
           => /\ now < ins[k].t + ins[k].d => last'.ret = Some(ins[k].v)
              /\ now > ins[k].t + ins[k].d
                   => (last'.ret = None /\ k \notin DOMAIN entries')]_vars

\* a get has just found its key expired, purged it and returned None
C3_Witness == last.op = "get" /\ last.purged /\ last.ret = None /\ now > 0

\* C4: get and remove never return the value of an entry whose expires_at is
\* earlier than the current time.  (Fails for remove, which never looks at
\* expires_at.)
C4_ExpiredNeverReturned ==
    [][(last'.op \in {"get", "remove"} /\ last'.ret # None)
         => ~is_expired(entries[last'.key], now)]_vars

\* C4 for get alone, which the code keeps.
C4_GetNeverReturnsExpired ==
    [][(last'.op = "get" /\ last'.ret # None)
         => ~is_expired(entries[last'.key], now)]_vars

\* C5: a get inside the TTL window of a key inserted with TTL > 0 returns the
\* inserted value, raises that entry's hit_count by exactly 1 and leaves its
\* value and expiry, and every other entry, as they were.
C5_HitIdempotence ==
    [][\A k \in CacheKeys :
         (last'.op = "get" /\ last'.key = k /\ k \in DOMAIN ins
            /\ ins[k].d > 0 /\ now <= ins[k].t + ins[k].d)
           => /\ last'.ret = Some(ins[k].v)
              /\ DOMAIN entries' = DOMAIN entries
              /\ entries'[k].hit_count = entries[k].hit_count + 1
              /\ entries'[k].value = entries[k].value
              /\ entries'[k].expires_at = entries[k].expires_at
              /\ \A j \in DOMAIN entries \ {k} : entries'[j] = entries[j]]_vars

\* a second hit in a row on a key inserted with TTL > 0, another entry resident
C5_Witness ==
    /\ last.op = "get" /\ last.ret # None
    /\ last.key \in DOMAIN ins /\ ins[last.key].d > 0
    /\ entries[last.key].hit_count = 2
    /\ Cardinality(DOMAIN entries) = 2

----------------------------------------------------------------------------
(* Claims about the resolver, checked under Spec *)

\* caller p makes a resolution call in this step
Started(p) ==
    /\ started' = started + 1
    /\ calls'[p] # calls[p] \/ (calls' = calls /\ out'.caller = p)

\* the call that caller p makes in this step
StartedCall(p) == IF calls'[p] # calls[p] THEN calls'[p] ELSE out'.call

\* the grammar of package names: '@', then exactly one '/' with a non-empty
\* segment on either side
PackageGrammar(name) ==
    /\ Len(name) >= 1 /\ name[1] = "@"
    /\ Cardinality({i \in 2..Len(name) : name[i] = "/"}) = 1
    /\ \A i \in 2..Len(name) : name[i] = "/" => (2 < i /\ i < Len(name))

\* the grammar of type names: '@', at least 3 segments between "::", the
\* first of them a package name
TypeGrammar(name) ==
    /\ Len(name) >= 1 /\ name[1] = "@"
    /\ Len(split(name, <<":", ":">>)) >= 3
    /\ PackageGrammar(split(name, <<":", ":">>)[1])

Grammar(kind, name) ==
    IF kind = "package" THEN PackageGrammar(name) ELSE TypeGrammar(name)

Overridden(kind, name) ==
    /\ overrides # None
    /\ name \in DOMAIN (IF kind = "package" THEN overrides[1].packages
                                             ELSE overrides[1].types)

OverrideValue(kind, name) ==
    IF kind = "package" THEN overrides[1].packages[name] ELSE overrides[1].types[name]

\* C6: a single resolution of a valid name that is in the override table
\* returns the override value at once, whatever the cache holds, and leaves
\* the cache entries and the permits as they were, with no permit taken and no
\* request sent.
C6_OverridePrecedence ==
    [][\A p \in Callers :
         (/\ Started(p)
          /\ ~StartedCall(p).batch
          /\ Grammar(StartedCall(p).kind, StartedCall(p).names[1])
          /\ Overridden(StartedCall(p).kind, StartedCall(p).names[1]))
           => /\ calls' = calls
              /\ out'.caller = p
              /\ out'.call.ret # None
              /\ out'.call.ret[1].ok
              /\ out'.call.ret[1].v = OverrideValue(out'.call.kind, out'.call.names[1])
              /\ entries' = entries
              /\ permits' = permits
              /\ out'.call.acquired = 0
              /\ out'.call.sent = <<>>]_vars

\* a single call has returned the override value of a name for which the cache
\* holds an unexpired entry with another value
C6_Witness ==
    /\ out.caller # 0
    /\ ~out.call.batch
    /\ Overridden(out.call.kind, out.call.names[1])
    /\ out.call.ret # None /\ out.call.ret[1].ok
    /\ out.call.ret[1].v = OverrideValue(out.call.kind, out.call.names[1])
    /\ LET key == cache_key(out.call.kind, out.call.names[1])
       IN /\ key \in DOMAIN entries
          /\ ~is_expired(entries[key], now)
          /\ entries[key].value # OverrideValue(out.call.kind, out.call.names[1])
          /\ entries[key].hit_count = 0

HasInvalidName(call) ==
    \E i \in 1..Len(call.names) : ~Grammar(call.kind, call.names[i])

\* C8: a batch call whose input holds an invalid name, at any position, fails
\* with a validation error and none of its steps changes the cache or takes it
\* towards a fetch.  (Fails: the names before the invalid one are looked up in
\* the cache before the invalid one is validated.)
C8_BatchValidationUpFront ==
    [][\A p \in Callers :
         (/\ calls[p].pc = "loop"
          /\ HasInvalidName(calls[p])
          /\ calls'[p] # calls[p])
           => /\ entries' = entries
              /\ calls'[p].pc \in {"loop", "idle"}
              /\ calls'[p].pc = "idle"
                   => (out'.caller = p /\ ~out'.call.ret[1].ok)]_vars

\* C9: the second occurrence of a name in a batch input causes no further
\* cache lookup and no further element of the fetch request.  (Fails: the
\* loop classifies every element of the input.)
C9_BatchDedup ==
    [][\A p \in Callers :
         (/\ calls[p].pc = "loop"
          /\ calls'[p] # calls[p]
          /\ \E j \in 1..(calls[p].i - 1) : calls[p].names[j] = calls[p].names[calls[p].i])
           => /\ entries' = entries
              /\ (IF calls'[p].pc = "idle" THEN out'.call ELSE calls'[p]).to_fetch
                   = calls[p].to_fetch]_vars

Elems(seq) == {seq[i] : i \in 1..Len(seq)}

InFlight == {p \in Callers : calls[p].pc = "fetching"}

\* C10: a batch call acquires no permit and sends nothing before its
\* classification loop has ended; if the loop leaves names to fetch, the call
\* takes exactly one permit and sends exactly one request, which carries all
\* of them; if it leaves none, or the call fails validation, the call returns
\* without a permit or a request.  A call dropped while it waits for its
\* permit ends with neither.  Each call in flight holds one permit.
C10_BatchFetchShape ==
    /\ permits + Cardinality(InFlight) = max_concurrent_requests
    /\ \A p \in Callers :
         calls[p].batch =>
           /\ calls[p].pc \in {"loop", "acquire"}
                => (calls[p].acquired = 0 /\ calls[p].sent = <<>>)
           /\ calls[p].pc # "loop"
                => (calls[p].to_fetch # <<>> /\ calls[p].i > Len(calls[p].names))
           /\ calls[p].pc \in {"fetching", "storing"}
                => (calls[p].acquired = 1 /\ calls[p].sent = <<calls[p].to_fetch>>)
           /\ \A n \in Elems(calls[p].to_fetch) : ~Overridden(calls[p].kind, n)
           /\ calls[p].pc \in {"loop", "acquire", "fetching"}
                => {calls[p].names[j] : j \in 1..(calls[p].i - 1)}
                     = DOMAIN calls[p].results \cup Elems(calls[p].to_fetch)
    /\ (out.caller # 0 /\ out.call.batch) =>
         IF out.call.i > Len(out.call.names) /\ out.call.to_fetch # <<>>
         THEN \/ out.call.acquired = 1 /\ out.call.sent = <<out.call.to_fetch>>
              \/ /\ out.call.pc = "cancelled"
                 /\ out.call.acquired = 0
                 /\ out.call.sent = <<>>
         ELSE out.call.acquired = 0 /\ out.call.sent = <<>>

\* a batch call with two names left to fetch has returned its results after
\* one request under one permit
C10_Witness ==
    /\ out.caller # 0
    /\ out.call.batch
    /\ out.call.ret # None /\ out.call.ret[1].ok
    /\ Len(out.call.to_fetch) = 2
    /\ out.call.acquired = 1
    /\ out.call.sent = <<out.call.to_fetch>>

\* a batch call with nothing left to fetch has returned a non-empty result
C10_WitnessNoFetch ==
    /\ out.caller # 0
    /\ out.call.batch
    /\ out.call.ret # None /\ out.call.ret[1].ok
    /\ out.call.names # <<>>
    /\ out.call.to_fetch = <<>>
    /\ out.call.acquired = 0

\* the batch fetch with this response fails
BatchFetchFails(resp) ==
    ~resp.sent \/ resp.status # 200 \/ resp.body.form # "json"

\* the error of a failed batch fetch: the client's error when there is no
\* response or no decodable body, the status otherwise
BatchFetchError(resp) ==
    IF ~resp.sent \/ resp.status = 200 THEN HttpError ELSE ServerError(resp.status)

\* no entry was stored: no key is new and no resident entry has a new value or
\* a new expiry
NothingInserted ==
    /\ DOMAIN entries' \subseteq DOMAIN entries
    /\ \A k \in DOMAIN entries' :
         /\ entries'[k].value = entries[k].value
         /\ entries'[k].expires_at = entries[k].expires_at

\* caller p's call gets the response to its request in this step
Responded(p) ==
    /\ calls[p].pc = "fetching"
    /\ calls'[p].pc # "fetching"
    /\ IF calls'[p].pc = "idle" THEN out'.call.resp # None ELSE calls'[p].resp # None

\* the call of caller p as the step leaves it
After(p) == IF calls'[p].pc = "idle" THEN out'.call ELSE calls'[p]

\* C11: when the batched fetch fails, the batch call returns that error and
\* no result map, leaving the cache as it is; and no step of a batch call up
\* to the end of its fetch inserts anything into the cache.
C11_BatchAllOrNothing ==
    [][\A p \in Callers :
         /\ (/\ Responded(p)
             /\ calls[p].batch
             /\ BatchFetchFails(After(p).resp[1]))
              => /\ out'.caller = p
                 /\ out'.call.pc = "done"
                 /\ ~out'.call.ret[1].ok
                 /\ out'.call.ret[1].v = BatchFetchError(out'.call.resp[1])
                 /\ entries' = entries
         /\ (/\ calls[p].batch
             /\ calls[p].pc \in {"loop", "acquire", "fetching"}
             /\ calls'[p] # calls[p])
              => NothingInserted]_vars

\* a batch call has returned the error of its fetch although one of its names
\* had been resolved from the override table, and the cache holds nothing
C11_Witness ==
    /\ out.caller # 0
    /\ out.call.batch
    /\ out.call.pc = "done"
    /\ out.call.resp # None
    /\ out.call.resp[1].status = 500
    /\ ~out.call.ret[1].ok
    /\ out.call.results # EmptyMap
    /\ entries = EmptyMap

\* every name of the call is grammatical and in the override table
AllOverridden(call) ==
    \A i \in 1..Len(call.names) :
        Grammar(call.kind, call.names[i]) /\ Overridden(call.kind, call.names[i])

\* C12: a batch call on grammatical names that are all in the override table
\* returns the map whose keys are the distinct names and whose value for each
\* name is what the single resolution of that name returns.
C12_BatchEqualsSingles ==
    (out.caller # 0 /\ out.call.batch /\ AllOverridden(out.call)) =>
       /\ out.call.pc = "done"
       /\ out.call.ret[1].ok
       /\ DOMAIN out.call.ret[1].v = Elems(out.call.names)
       /\ \A n \in Elems(out.call.names) :
            LET single == resolve_lookup(entries, overrides, out.call.kind, n, now)
            IN /\ single.ret # None
               /\ single.ret[1].ok
               /\ out.call.ret[1].v[n] = single.ret[1].v

\* a batch call on two distinct overridden names has returned two values
C12_Witness ==
    /\ out.caller # 0
    /\ out.call.batch
    /\ AllOverridden(out.call)
    /\ Len(out.call.names) = 2
    /\ out.call.names[1] # out.call.names[2]
    /\ out.call.ret # None /\ out.call.ret[1].ok
    /\ out.call.ret[1].v[out.call.names[1]] # out.call.ret[1].v[out.call.names[2]]

\* C13: a batch call on the empty list returns the empty map at once, without
\* error, and leaves the cache entries and the permits as they were, with no
\* permit taken and no request sent.
C13_EmptyBatch ==
    [][\A p \in Callers :
         (Started(p) /\ StartedCall(p).batch /\ StartedCall(p).names = <<>>)
           => /\ calls' = calls
              /\ out'.caller = p
              /\ out'.call.pc = "done"
              /\ out'.call.ret[1].ok
              /\ out'.call.ret[1].v = EmptyMap
              /\ entries' = entries
              /\ permits' = permits
              /\ out'.call.acquired = 0
              /\ out'.call.sent = <<>>]_vars

\* a batch call on the empty list has returned while the cache holds entries
C13_Witness ==
    /\ out.caller # 0
    /\ out.call.batch
    /\ out.call.names = <<>>
    /\ out.call.ret # None /\ out.call.ret[1].ok
    /\ out.call.ret[1].v = EmptyMap
    /\ entries # EmptyMap

\* C14: in every state the number of fetches in flight (permit held, request
\* issued, response not yet handled) is at most max_concurrent_requests,
\* however many calls are running.
C14_AdmissionBound ==
    /\ Cardinality(InFlight) <= max_concurrent_requests
    /\ permits >= 0

\* with one permit configured, one fetch is in flight and the other caller's
\* call waits for the permit
C14_Witness ==
    /\ max_concurrent_requests = 1
    /\ Cardinality(InFlight) = 1
    /\ \E q \in Callers : calls[q].pc = "acquire"

\* C15: every fetch takes exactly one permit before its request goes out and
\* gives it back in the step that ends it, whatever the response; so the
\* available permits plus the fetches in flight equal
\* max_concurrent_requests in every state, and all permits are available
\* whenever no fetch is in flight.
C15_NoPermitLeak ==
    /\ [](/\ permits + Cardinality(InFlight) = max_concurrent_requests
          /\ InFlight = {} => permits = max_concurrent_requests
          /\ \A p \in Callers : calls[p].sent # <<>> => calls[p].acquired = 1)
    /\ [][\A p \in Callers :
            /\ (calls[p].pc = "acquire" /\ calls'[p].pc = "fetching")
                 => /\ permits' = permits - 1
                    /\ calls[p].sent = <<>>
                    /\ Len(calls'[p].sent) = 1
            /\ Responded(p)
                 => /\ permits' = permits + 1
                    /\ After(p).acquired = 1]_vars

\* a fetch that ended in a transport error has given its permit back
C15_Witness ==
    /\ out.caller # 0
    /\ out.call.acquired = 1
    /\ out.call.resp = Some(TransportFailure)
    /\ out.call.ret # None /\ ~out.call.ret[1].ok
    /\ max_concurrent_requests > 0
    /\ permits = max_concurrent_requests

\* caller p's call is cancelled in this step
Cancelled(p) == out'.caller = p /\ out'.call.pc = "cancelled"

\* C16: cancelling a call that waits for a permit leaves the available
\* permits as they are; cancelling a call that holds a permit gives the permit
\* back; so the permits are never reduced for good, and a call that waits can
\* take a permit whenever fewer than max_concurrent_requests fetches are in
\* flight.
C16_CancellationSafety ==
    /\ [][\A p \in Callers :
            Cancelled(p)
              => /\ calls[p].pc = "acquire" => permits' = permits
                 /\ calls[p].pc = "fetching" => permits' = permits + 1
                 /\ entries' = entries
                 /\ \A q \in Callers \ {p} : calls'[q] = calls[q]]_vars
    /\ [](permits = max_concurrent_requests - Cardinality(InFlight))
    /\ [](\A q \in Callers :
            (calls[q].pc = "acquire" /\ Cardinality(InFlight) < max_concurrent_requests)
              => ENABLED Acquire(q))

\* a call was cancelled while it held the only permit, and the other caller's
\* call, which was waiting, can now take it
C16_Witness ==
    /\ out.caller # 0
    /\ out.call.pc = "cancelled"
    /\ out.call.acquired = 1
    /\ max_concurrent_requests = 1
    /\ permits = 1
    /\ \E q \in Callers : calls[q].pc = "acquire"

\* a call was cancelled while it waited for the permit held by the other
\* caller's fetch
C16_WitnessWaiting ==
    /\ out.caller # 0
    /\ out.call.pc = "cancelled"
    /\ out.call.acquired = 0
    /\ permits = 0
    /\ Cardinality(InFlight) = 1

\* C17: when the fetch exceeds the configured timeout, the call fails with
\* the Timeout kind and the permit of the fetch is given back.  (Fails: the
\* client's timeout error is converted to HttpError; nothing builds Timeout.)
C17_TimeoutSurfacing ==
    [][\A p \in Callers :
         (Responded(p) /\ After(p).resp = Some(TimedOut))
           => /\ out'.caller = p
              /\ out'.call.pc = "done"
              /\ ~out'.call.ret[1].ok
              /\ out'.call.ret[1].v.kind = "Timeout"
              /\ permits' = permits + 1]_vars

\* the registry's answer to a single fetch resolves the name
SingleFetchSucceeds(kind, resp) ==
    /\ resp.sent
    /\ resp.status = 200
    /\ resp.body.form \in (IF kind = "package"
                           THEN {"address_text", "json_address"}
                           ELSE {"json_type_signature"})

\* C18: when the fetch succeeds but the cache's critical section cannot be
\* acquired for the insert, the single call still returns the resolved value,
\* and a batch call that has begun to store its fetched values still returns
\* its results.  (Fails: the CacheError of insert is propagated with `?`.)
C18_CacheWriteFailure ==
    [][\A p \in Callers :
         /\ (/\ poisoned
             /\ Responded(p)
             /\ ~calls[p].batch
             /\ SingleFetchSucceeds(calls[p].kind, After(p).resp[1]))
              => /\ out'.caller = p
                 /\ out'.call.pc = "done"
                 /\ out'.call.ret[1].ok
                 /\ out'.call.ret[1].v = out'.call.resp[1].body.v
         /\ (/\ poisoned
             /\ calls[p].pc = "storing"
             /\ calls'[p].pc = "idle")
              => /\ out'.caller = p
                 /\ out'.call.pc = "done"
                 /\ out'.call.ret[1].ok]_vars

\* the error of a single fetch that does not resolve the name
SingleFetchError(kind, name, resp) ==
    IF ~resp.sent THEN HttpError
    ELSE IF resp.status = 200 THEN JsonError
    ELSE IF resp.status = 404
         THEN IF kind = "package" THEN PackageNotFound(name) ELSE TypeNotFound(name)
    ELSE IF resp.status = 429
         THEN RateLimitExceeded(IF resp.retry_after = None THEN 60
                                ELSE resp.retry_after[1])
    ELSE ServerError(resp.status)

\* C19: when the fetch of a single call fails, the call returns the error of
\* the fetch and the cache is as it was: nothing is stored for the name.
C19_FetchFailureNoCaching ==
    [][\A p \in Callers :
         (/\ Responded(p)
          /\ ~calls[p].batch
          /\ ~SingleFetchSucceeds(calls[p].kind, After(p).resp[1]))
           => /\ out'.caller = p
              /\ out'.call.pc = "done"
              /\ ~out'.call.ret[1].ok
              /\ out'.call.ret[1].v =
                   SingleFetchError(out'.call.kind, out'.call.names[1], out'.call.resp[1])
              /\ entries' = entries]_vars

\* resolve_package has returned PackageNotFound after a 404 and the cache
\* holds nothing for the name
C19_Witness ==
    /\ out.caller # 0
    /\ ~out.call.batch
    /\ out.call.kind = "package"
    /\ out.call.resp # None
    /\ out.call.resp[1].status = 404
    /\ ~out.call.ret[1].ok
    /\ out.call.ret[1].v = PackageNotFound(out.call.names[1])
    /\ package_key(out.call.names[1]) \notin DOMAIN entries

\* the name is grammatical, not overridden, and the cache holds an unexpired
\* entry for it
CachedLive(kind, name) ==
    /\ Grammar(kind, name)
    /\ ~Overridden(kind, name)
    /\ cache_key(kind, name) \in DOMAIN entries
    /\ now <= entries[cache_key(kind, name)].expires_at

\* C20: a single call that ends with a successful fetch of v returns v and
\* leaves the cache holding v for the name, of its kind, until the configured
\* TTL from now; and as long as that entry is resident and the TTL has not
\* elapsed, a resolution of the name, single or in a batch, returns the
\* entry's value without a permit or a request.
C20_CachePopulation ==
    [][\A p \in Callers :
         /\ (/\ Responded(p)
             /\ ~calls[p].batch
             /\ SingleFetchSucceeds(calls[p].kind, After(p).resp[1]))
              => /\ out'.caller = p
                 /\ out'.call.pc = "done"
                 /\ out'.call.ret[1].ok
                 /\ out'.call.ret[1].v = out'.call.resp[1].body.v
                 /\ LET key == cache_key(out'.call.kind, out'.call.names[1])
                    IN /\ key \in DOMAIN entries'
                       /\ entries'[key].value = out'.call.ret[1].v
                       /\ entries'[key].expires_at = now + default_ttl
                       /\ \A k \in DOMAIN entries : k # key => k \in DOMAIN entries'
         /\ (/\ Started(p)
             /\ ~StartedCall(p).batch
             /\ CachedLive(StartedCall(p).kind, StartedCall(p).names[1]))
              => /\ calls' = calls
                 /\ out'.caller = p
                 /\ out'.call.pc = "done"
                 /\ out'.call.ret[1].ok
                 /\ out'.call.ret[1].v =
                      entries[cache_key(out'.call.kind, out'.call.names[1])].value
                 /\ out'.call.acquired = 0
                 /\ out'.call.sent = <<>>
                 /\ permits' = permits
         /\ (/\ calls[p].pc = "loop"
             /\ calls'[p] # calls[p]
             /\ CachedLive(calls[p].kind, calls[p].names[calls[p].i]))
              => LET name == calls[p].names[calls[p].i]
                 IN /\ After(p).to_fetch = calls[p].to_fetch
                    /\ name \in DOMAIN After(p).results
                    /\ After(p).results[name] =
                         entries[cache_key(calls[p].kind, name)].value]_vars

\* a single call for a name that is not overridden has returned the cached
\* value without a fetch, one clock reading after the entry was stored
C20_Witness ==
    /\ out.caller # 0
    /\ ~out.call.batch
    /\ out.call.pc = "done"
    /\ ~Overridden(out.call.kind, out.call.names[1])
    /\ out.call.ret # None /\ out.call.ret[1].ok
    /\ out.call.sent = <<>>
    /\ LET key == cache_key(out.call.kind, out.call.names[1])
       IN /\ key \in DOMAIN entries
          /\ entries[key].hit_count = 1
          /\ entries[key].last_accessed = now
          /\ entries[key].expires_at = now

----------------------------------------------------------------------------
(* Claims about cache keys, checked under SpecKeys *)

\* every string of at most 3 characters over the characters names are made of
KeyStrings ==
    UNION {[1..n -> {"@", "/", ":", "a", "p", "t"}] : n \in 0..3} \cup KeyInputs

\* C21: the cache key of package s differs from the cache key of type s for
\* every string s, also one that is both a package name and a type name; so a
\* single resolution that returns a value returns one the registry gave for
\* its own kind (an address for a package, a type signature for a type), and
\* a type resolution of s that finds only the package entry of s in the cache
\* goes to the registry, and vice versa.
C21_KindNamespacedKeys ==
    /\ [](\A s \in KeyStrings : package_key(s) # type_key(s))
    /\ []((out.caller # 0 /\ out.call.pc = "done" /\ out.call.ret[1].ok)
            => out.call.ret[1].v =
                 (IF out.call.kind = "package" THEN "0xA" ELSE "0xA::m::T"))
    /\ [][\A p \in Callers :
            (/\ Started(p)
             /\ \A e \in {entries[k] : k \in DOMAIN entries} :
                  e.value = (IF StartedCall(p).kind = "package" THEN "0xA::m::T" ELSE "0xA"))
              => (calls'[p].pc = "acquire" /\ entries' = entries)]_vars

\* a type resolution of a string returned the type signature it fetched while
\* the cache held the unexpired address stored by a package resolution of the
\* same string
C21_Witness ==
    /\ out.caller # 0
    /\ out.call.pc = "done"
    /\ out.call.kind = "type"
    /\ out.call.names = <<TypeCD>>
    /\ out.call.ret[1].ok
    /\ out.call.ret[1].v = "0xA::m::T"
    /\ out.call.acquired = 1
    /\ Cardinality(DOMAIN entries) = 2
    /\ \E k \in DOMAIN entries :
         /\ entries[k].value = "0xA"
         /\ entries[k].last_accessed = now
         /\ entries[k].hit_count = 0

----------------------------------------------------------------------------
(* Claims about the validators, checked under SpecValidate *)

\* the pieces of `name` between its occurrences of "::", read left to right:
\* piece k of `cuts`, an increasing sequence of positions of "::" no two of
\* which overlap and between which no further "::" fits
Colons(name) == {i \in 1..(Len(name) - 1) : name[i] = ":" /\ name[i + 1] = ":"}

RECURSIVE Cuts(_, _)
Cuts(name, from) ==
    LET next == {i \in Colons(name) : i >= from}
    IN IF next = {}
       THEN <<>>
       ELSE LET i == CHOOSE m \in next : \A n \in next : m <= n
            IN <<i>> \o Cuts(name, i + 2)

FirstSegment(name) ==
    IF Cuts(name, 1) = <<>> THEN name ELSE SubSeq(name, 1, Cuts(name, 1)[1] - 1)

\* the grammar of type names as the claim states it
TypeNameGrammar(name) ==
    /\ Len(name) >= 1 /\ name[1] = "@"
    /\ Colons(name) # {}
    /\ Len(Cuts(name, 1)) + 1 >= 3
    /\ PackageGrammar(FirstSegment(name))

\* C22: validate_type_name accepts a name iff the name starts with '@',
\* contains "::", has at least 3 segments between "::" and a first segment
\* that is a package name; and it rejects every other name with
\* InvalidTypeName.  (Fails on the kind: a name whose first segment is not a
\* package name is rejected with InvalidPackageName of that segment.)
C22_TypeNameValidation ==
    last.op = "validate_type_name"
      => /\ last.ret.ok <=> TypeNameGrammar(last.name)
         /\ ~last.ret.ok => last.ret.v.kind = "InvalidTypeName"

\* C23: validate_package_name accepts a name iff the name starts with '@' and
\* the rest holds exactly one '/' with a non-empty segment before and after
\* it; it rejects every other string with InvalidPackageName of the string.
C23_PackageNameValidation ==
    last.op = "validate_package_name"
      => /\ last.ret.ok <=> PackageGrammar(last.name)
         /\ ~last.ret.ok => last.ret.v = InvalidPackageName(last.name)
         /\ last.name \in {<<>>, <<"@">>, <<"@", "a", "/">>, <<"@", "/", "a">>,
                           <<"@", "a", "/", "a", "/", "a">>}
              => ~last.ret.ok

\* the validator has rejected a name with a second '/', "@a/a/a"
C23_Witness ==
    /\ last.op = "validate_package_name"
    /\ last.name = <<"@", "a", "/", "a", "/", "a">>
    /\ ~last.ret.ok

----------------------------------------------------------------------------
(* Claims about the predicates of MvrError, checked under SpecErrors *)

\* C24: for RateLimitExceeded{retry_after_secs} is_retryable is true,
\* is_client_error is false, is_rate_limited is true and retry_delay is
\* exactly retry_after_secs seconds.  (Fails on is_retryable, whose pattern
\* has no alternative for RateLimitExceeded.)
C24_RateLimitClassification ==
    (last.op # "error" /\ last.err.kind = "RateLimitExceeded")
      => /\ last.op = "is_retryable" => last.ret = TRUE
         /\ last.op = "is_client_error" => last.ret = FALSE
         /\ last.op = "is_rate_limited" => last.ret = TRUE
         /\ last.op = "retry_delay" => last.ret = Some(last.err.arg)

\* C24 without is_retryable, which the code keeps.
C24_RateLimitOtherPredicates ==
    (last.op # "error" /\ last.err.kind = "RateLimitExceeded")
      => /\ last.op = "is_client_error" => last.ret = FALSE
         /\ last.op = "is_rate_limited" => last.ret = TRUE
         /\ last.op = "retry_delay" => last.ret = Some(last.err.arg)

\* C25: is_retryable is true of ServerError iff status_code >= 500, true of
\* Timeout and of HttpError, false of InvalidPackageName, InvalidTypeName,
\* PackageNotFound, TypeNotFound and CacheError; is_client_error is true of
\* the four name errors.  (Fails wherever the guard on status_code meets an
\* alternative that binds none.)
C25_RetryabilityByKind ==
    /\ last.op = "is_retryable"
         => /\ last.err.kind = "ServerError" => (last.ret <=> last.err.arg >= 500)
            /\ last.err.kind \in {"Timeout", "HttpError"} => last.ret
            /\ last.err.kind \in {"InvalidPackageName", "InvalidTypeName",
                                  "PackageNotFound", "TypeNotFound", "CacheError"}
                 => ~last.ret
    /\ last.op = "is_client_error"
         => (last.err.kind \in {"InvalidPackageName", "InvalidTypeName",
                                "PackageNotFound", "TypeNotFound"} => last.ret)

\* the parts of C25 that do not depend on the guard's reading of status_code
C25_RetryabilityDecided ==
    last.op = "is_retryable"
         => /\ last.err.kind = "ServerError" => (last.ret <=> last.err.arg >= 500)
            /\ last.err.kind \in {"InvalidPackageName", "InvalidTypeName",
                                  "PackageNotFound", "TypeNotFound", "CacheError"}
                 => ~last.ret

----------------------------------------------------------------------------
(* Claims about resolve_mvr_target, checked under SpecTarget *)

\* caller p calls resolve_mvr_target in this step
StartedTarget(p) == Started(p) /\ StartedCall(p).target # None

\* the package name in front of the first "::" of the target, and what
\* follows that "::"
TargetPackage(target) == FirstSegment(target)

TargetRest(target) == SubSeq(target, Cuts(target, 1)[1] + 2, Len(target))

\* C26: resolve_mvr_target returns a target that does not start with '@' as
\* it is, with no resolution; for a target '@ns/pkg::module::function' whose
\* package '@ns/pkg' resolves to A (here: through the override table) it
\* returns 'A::module::function'; for a target that starts with '@' and holds
\* no '/' it returns an error.  (Fails on the second part: the code cuts the
\* target at its first '/', and resolves '@ns'.)
C26_ResolveMvrTarget ==
    [][\A p \in Callers :
         StartedTarget(p) =>
           LET target == StartedCall(p).target[1]
           IN /\ ~starts_with(target, "@")
                   => /\ out'.caller = p
                      /\ out'.call.ret[1] = Ok(target)
                      /\ entries' = entries
                      /\ out'.call.acquired = 0
              /\ (\A i \in 1..Len(target) : target[i] # "/") /\ starts_with(target, "@")
                   => (out'.caller = p /\ ~out'.call.ret[1].ok)
              /\ (/\ Colons(target) # {}
                  /\ PackageGrammar(TargetPackage(target))
                  /\ Overridden("package", TargetPackage(target)))
                   => /\ out'.caller = p
                      /\ out'.call.ret[1].ok
                      /\ out'.call.ret[1].v =
                           format_target(OverrideValue("package", TargetPackage(target)),
                                         TargetRest(target))]_vars

\* the first and the third part of C26, which the code keeps
C26_PassThroughAndNoSlash ==
    [][\A p \in Callers :
         StartedTarget(p) =>
           LET target == StartedCall(p).target[1]
           IN /\ ~starts_with(target, "@")
                   => /\ out'.caller = p
                      /\ out'.call.ret[1] = Ok(target)
                      /\ entries' = entries
                      /\ out'.call.acquired = 0
              /\ (\A i \in 1..Len(target) : target[i] # "/") /\ starts_with(target, "@")
                   => (out'.caller = p /\ ~out'.call.ret[1].ok)]_vars

----------------------------------------------------------------------------
(* Claims about concurrent resolutions, checked under SpecFlight *)

\* C27: resolutions of the same name are not collapsed.  A single resolution
\* of a valid name that is neither overridden nor in the cache goes on to its
\* own fetch whether or not another call is fetching the same name; every call
\* in flight holds its own permit; and each successful fetch overwrites the
\* entry of the name, so the cache holds one entry for it, written by the
\* insert that ran last.
C27_NoSingleFlight ==
    /\ [](permits + Cardinality(InFlight) = max_concurrent_requests)
    /\ [][\A p \in Callers :
            /\ (/\ Started(p)
                /\ ~StartedCall(p).batch
                /\ Grammar(StartedCall(p).kind, StartedCall(p).names[1])
                /\ ~Overridden(StartedCall(p).kind, StartedCall(p).names[1])
                /\ cache_key(StartedCall(p).kind, StartedCall(p).names[1])
                     \notin DOMAIN entries)
                 => /\ calls'[p].pc = "acquire"
                    /\ calls'[p].to_fetch = calls'[p].names
            /\ (/\ Responded(p)
                /\ ~calls[p].batch
                /\ SingleFetchSucceeds(calls[p].kind, After(p).resp[1]))
                 => LET key == cache_key(calls[p].kind, calls[p].names[1])
                    IN /\ DOMAIN entries' = DOMAIN entries \cup {key}
                       /\ entries'[key].value = After(p).resp[1].body.v
                       /\ entries'[key].hit_count = 0
                       /\ entries'[key].last_accessed = now]_vars

\* two calls for the same name, both having missed the cache, are in flight at
\* once, each with its own permit and its own request
C27_WitnessBothInFlight ==
    /\ calls[1].pc = "fetching" /\ calls[2].pc = "fetching"
    /\ calls[1].names = <<PkgCD>> /\ calls[2].names = <<PkgCD>>
    /\ calls[1].acquired = 1 /\ calls[2].acquired = 1
    /\ calls[1].sent = <<(<<PkgCD>>)>> /\ calls[2].sent = <<(<<PkgCD>>)>>
    /\ permits = max_concurrent_requests - 2
    /\ package_key(PkgCD) \notin DOMAIN entries

\* one of two calls that both missed the cache for the same name has just
\* returned and stored "0x1" while the other still holds its permit, its
\* request in flight
C27_Witness ==
    /\ out.caller # 0
    /\ out.call.pc = "done"
    /\ out.call.names = <<PkgCD>>
    /\ out.call.acquired = 1
    /\ out.call.ret[1].ok /\ out.call.ret[1].v = "0x1"
    /\ entries[package_key(PkgCD)].value = "0x1"
    /\ \E q \in Callers :
         /\ calls[q].pc = "fetching"
         /\ calls[q].names = <<PkgCD>>
         /\ calls[q].acquired = 1
    /\ permits = max_concurrent_requests - 1

\* both calls have fetched the name: the second to finish has returned "0x2"
\* and the cache holds the one entry, with "0x2"
C27_WitnessLastInsert ==
    /\ out.caller # 0
    /\ out.call.pc = "done"
    /\ out.call.names = <<PkgCD>>
    /\ out.call.acquired = 1
    /\ out.call.ret[1].ok /\ out.call.ret[1].v = "0x2"
    /\ started = 2
    /\ permits = max_concurrent_requests
    /\ max_concurrent_requests = 2
    /\ DOMAIN entries = {package_key(PkgCD)}
    /\ entries[package_key(PkgCD)].value = "0x2"

----------------------------------------------------------------------------
(* Claims about the cache under concurrency, checked under SpecAtomic *)

\* what the operation of `call`, run as a whole on the map it found when it
\* took the lock, can leave and return
Outcomes(call) ==
    LET a == call.at_lock
    IN IF call.op = "get"
       THEN {[entries |-> get(a, call.key, call.t).entries,
              ret |-> get(a, call.key, call.t).ret]}
       ELSE IF call.op = "insert"
       THEN {[entries |-> r.entries, ret |-> Some(Ok(<<>>))] :
               r \in insert(a, call.key, call.value, call.t, max_size, default_ttl)}
       ELSE IF call.op = "remove"
       THEN {[entries |-> remove(a, call.key).entries, ret |-> remove(a, call.key).ret]}
       ELSE IF call.op = "clear"
       THEN {[entries |-> clear(a), ret |-> Some(Ok(<<>>))]}
       ELSE {[entries |-> cleanup_expired(a, call.t).entries,
              ret |-> Some(cleanup_expired(a, call.t).ret)]}

LockHolders == {p \in Callers : calls[p].pc \in Locked}

\* thread p returns from its operation in this step
Returns(p) == calls[p].pc = "return" /\ calls'[p].pc = "idle"

\* C28: the operations of the cache are atomic.  At most one thread is inside
\* an operation's critical section; the entry map changes only by a step of
\* that thread; and every get, insert, remove, clear and cleanup_expired
\* leaves the map and returns the result that the operation run as a whole, on
\* the map as the previous operation left it, leaves and returns.  So every
\* get that hits raises hit_count by exactly 1 over what the previous
\* operation left, and no operation sees an insert between its eviction and
\* its store.
C28_AtomicOperations ==
    /\ [](Cardinality(LockHolders) <= 1)
    /\ [][entries' # entries
            => \E p \in LockHolders : calls'[p] # calls[p]]_vars
    /\ [][\A p \in Callers :
            Returns(p)
                 => /\ [entries |-> entries, ret |-> calls[p].ret] \in Outcomes(calls[p])
                    /\ (calls[p].op = "get" /\ calls[p].ret # None)
                         => entries[calls[p].key].hit_count
                              = calls[p].at_lock[calls[p].key].hit_count + 1]_vars

\* a get has returned the second hit of its key while the other thread, which
\* called get on the same key before, waits for the lock
C28_Witness ==
    /\ out.caller # 0
    /\ out.call.op = "get"
    /\ out.call.ret # None
    /\ entries[out.call.key].hit_count = 2
    /\ \E q \in Callers :
         /\ calls[q].pc = "lock"
         /\ calls[q].op = "get"
         /\ calls[q].key = out.call.key

\* an insert has evicted and not yet stored while the other thread waits for
\* the lock with a get
C28_WitnessMidInsert ==
    \E p, q \in Callers :
      /\ calls[p].pc = "insert_put"
      /\ Cardinality(DOMAIN entries) < Cardinality(DOMAIN calls[p].at_lock)
      /\ calls[q].pc = "lock"
      /\ calls[q].op = "get"

----------------------------------------------------------------------------
(* Claims about cleanup_expired and stats, checked under SpecCache *)

\* the resident entries whose expiry has passed
PastExpiry(es, t) == {k \in DOMAIN es : es[k].expires_at < t}

\* C29: cleanup_expired removes exactly the entries whose expiry has passed,
\* whether or not a get ever touched them, returns the number of entries it
\* removed, and leaves every other entry as it was; stats taken right after
\* it reports expired_entries = 0.
C29_CleanupExpired ==
    [][last'.op = "cleanup"
         => /\ DOMAIN entries' = DOMAIN entries \ PastExpiry(entries, now)
            /\ \A k \in DOMAIN entries' : entries'[k] = entries[k]
            /\ last'.ret = Cardinality(PastExpiry(entries, now))
            /\ stats(entries', now', max_size).expired_entries = 0]_vars

\* a sweep has removed one entry, which no get had removed before, and left
\* the other one, which has a hit and expires at this instant
C29_Witness ==
    /\ last.op = "cleanup"
    /\ last.ret = 1
    /\ Cardinality(DOMAIN entries) = 1
    /\ \E k \in DOMAIN entries :
         /\ entries[k].hit_count = 1
         /\ entries[k].expires_at = now

\* C30: in every reachable state stats reports total_entries = the number of
\* resident entries, expired ones included; expired_entries = the number of
\* resident entries past their expiry; valid_entries = total_entries -
\* expired_entries; total_hits = the sum of hit_count over the resident
\* entries; max_size as configured; and a call of stats changes no entry.
C30_StatsArithmetic ==
    /\ [](LET st == stats(entries, now, max_size)
          IN /\ st.total_entries = Cardinality(DOMAIN entries)
             /\ st.expired_entries = Cardinality(PastExpiry(entries, now))
             /\ st.valid_entries = st.total_entries - st.expired_entries
             /\ st.total_hits =
                  Cardinality({<<k, i>> \in (DOMAIN entries) \X (1..MaxHits) :
                                 i <= entries[k].hit_count})
             /\ st.max_size = max_size)
    /\ [][last'.op = "stats"
            => /\ last'.ret = stats(entries, now, max_size)
               /\ entries' = entries
               /\ now' = now]_vars

\* stats has reported two resident entries, one of them expired and not yet
\* swept, and two hits
C30_Witness ==
    /\ last.op = "stats"
    /\ last.ret.total_entries = 2
    /\ last.ret.expired_entries = 1
    /\ last.ret.valid_entries = 1
    /\ last.ret.total_hits = 2
    /\ Cardinality(DOMAIN entries) = 2

----------------------------------------------------------------------------
(* Claims about the whole engine: failures, saturation, progress *)

\* C31: when the cache's critical section cannot be acquired during the
\* lookup of a resolution of a grammatical name that has no override, the
\* call fails with CacheError at once: it takes no permit and sends no
\* request, and a batch call stops at that name.  (Fails: MvrCache::get turns
\* the lock failure into None, which the resolver reads as a miss.)
C31_LookupLockFailureFatal ==
    [][\A p \in Callers :
         /\ (/\ poisoned
             /\ Started(p)
             /\ ~StartedCall(p).batch
             /\ Grammar(StartedCall(p).kind, StartedCall(p).names[1])
             /\ ~Overridden(StartedCall(p).kind, StartedCall(p).names[1]))
              => /\ out'.caller = p
                 /\ out'.call.pc = "done"
                 /\ out'.call.ret = Some(Err(CacheError))
                 /\ out'.call.acquired = 0
                 /\ out'.call.sent = <<>>
         /\ (/\ poisoned
             /\ calls[p].pc = "loop"
             /\ calls'[p] # calls[p]
             /\ Grammar(calls[p].kind, calls[p].names[calls[p].i])
             /\ ~Overridden(calls[p].kind, calls[p].names[calls[p].i]))
              => /\ out'.caller = p
                 /\ out'.call.pc = "done"
                 /\ out'.call.ret = Some(Err(CacheError))]_vars

\* the response has a body that does not decode or lacks the expected shape
UndecodableBody(call, resp) ==
    /\ resp.sent
    /\ resp.status = 200
    /\ IF call.batch THEN resp.body.form # "json"
       ELSE ~SingleFetchSucceeds(call.kind, resp)

\* C32: a call whose response has a body that cannot be decoded or lacks the
\* expected shape fails with an error that is_retryable reports false, on the
\* single and on the batch paths of packages and of types; a call whose
\* request met a transport failure fails with an error that is_retryable
\* reports true.  (Fails: response.json() of the batch paths hands a body
\* that does not decode on as HttpError, the error of a transport failure.)
C32_DecodeVersusTransport ==
    [][\A p \in Callers :
         Responded(p)
           => /\ UndecodableBody(After(p), After(p).resp[1])
                   => /\ out'.caller = p
                      /\ ~out'.call.ret[1].ok
                      /\ is_retryable(out'.call.ret[1].v) = {FALSE}
              /\ After(p).resp[1] = TransportFailure
                   => /\ out'.caller = p
                      /\ ~out'.call.ret[1].ok
                      /\ is_retryable(out'.call.ret[1].v) = {TRUE}]_vars

\* the part of C32 that the code keeps: on the single paths an undecodable
\* body is JsonError, which is never retryable, and on every path a transport
\* failure is HttpError
C32_SingleDecodeAndTransportKinds ==
    [][\A p \in Callers :
         Responded(p)
           => /\ (~After(p).batch /\ UndecodableBody(After(p), After(p).resp[1]))
                   => /\ out'.caller = p
                      /\ out'.call.ret = Some(Err(JsonError))
                      /\ is_retryable(JsonError) = {FALSE}
              /\ After(p).resp[1] = TransportFailure
                   => /\ out'.caller = p
                      /\ out'.call.ret = Some(Err(HttpError))]_vars

\* the batch paths give an undecodable body and a transport failure the same
\* error
C32_BatchDecodeIsHttpError ==
    [][\A p \in Callers :
         (Responded(p) /\ After(p).batch /\ UndecodableBody(After(p), After(p).resp[1]))
           => /\ out'.caller = p
              /\ out'.call.ret = Some(Err(HttpError))]_vars

\* C33: no resolution call returns TooManyConcurrentRequests, and a call
\* that waits for a permit while none is available stays as it is, until a
\* permit is given back or its future is dropped: it takes no permit, sends
\* nothing and does not return.  (Nothing closes the semaphore, so the error
\* of an aborted wait is never built.)
C33_SaturationBlocks ==
    /\ [](out.caller # 0 /\ out.call.pc = "done" /\ ~out.call.ret[1].ok
            => out.call.ret[1].v.kind # "TooManyConcurrentRequests")
    /\ [][\A p \in Callers :
            (calls[p].pc = "acquire" /\ permits = 0)
              => \/ calls'[p] = calls[p]
                 \/ out'.caller = p /\ out'.call.pc = "cancelled"]_vars

\* every permit of a resolver that has one is held by a call that is
\* fetching, and another call waits for a permit
C33_Witness ==
    /\ max_concurrent_requests >= 1
    /\ permits = 0
    /\ \E p, q \in Callers :
         /\ calls[p].pc = "fetching"
         /\ calls[q].pc = "acquire"
         /\ calls[q].acquired = 0
         /\ calls[q].sent = <<>>

----------------------------------------------------------------------------
(* More claims about the cache, checked under SpecCache *)

\* C34: an insert of a key that is already resident, into a cache that holds
\* max_size entries, replaces the entry of that key by a fresh one (its own
\* TTL, hit_count 0) and leaves every other entry as it was: the set of
\* resident keys is the same after the insert.  (Fails: insert_with_ttl evicts
\* whenever len >= max_size, without looking whether the key is resident.)
C34_OverwriteEvictsNobody ==
    [][\A k \in CacheKeys :
         (/\ last'.op = "insert"
          /\ last'.key = k
          /\ k \in DOMAIN entries
          /\ Cardinality(DOMAIN entries) = max_size)
           => /\ DOMAIN entries' = DOMAIN entries
              /\ entries'[k].hit_count = 0
              /\ entries'[k].expires_at = now + ins'[k].d
              /\ \A j \in DOMAIN entries \ {k} : entries'[j] = entries[j]]_vars

\* the part of C34 that the code keeps: the overwritten key is resident
\* afterwards with a fresh entry, and at most one other key is gone
C34_OverwriteFreshEntry ==
    [][\A k \in CacheKeys :
         (/\ last'.op = "insert"
          /\ last'.key = k
          /\ k \in DOMAIN entries
          /\ Cardinality(DOMAIN entries) = max_size)
           => /\ k \in DOMAIN entries'
              /\ entries'[k].hit_count = 0
              /\ entries'[k].expires_at = now + ins'[k].d
              /\ Cardinality(DOMAIN entries \ DOMAIN entries') <= 1]_vars

\* C40: when an insert evicts and an entry of the cache is already expired,
\* the entry evicted is an expired one: an unexpired entry is evicted only
\* when every resident entry is unexpired.  (Fails: evict_lru looks at
\* last_accessed alone.)
C40_EvictionPrefersExpired ==
    [][(/\ last'.op = "insert"
        /\ last'.evicted # {}
        /\ \E k \in DOMAIN entries : is_expired(entries[k], now))
         => \A k \in last'.evicted : is_expired(entries[k], now)]_vars

----------------------------------------------------------------------------
(* More claims about the resolver, checked under Spec *)

\* C35: whenever resolve_packages / resolve_types returns a map, the keys of
\* the map are exactly the distinct names of the input: every requested name
\* has a value and no other name appears, whatever names the response to the
\* batch fetch holds.  (Fails: the loop over the fetched map takes every pair
\* of the response and never looks for the names the response leaves out.)
C35_BatchCompleteness ==
    (/\ out.caller # 0
     /\ out.call.batch
     /\ out.call.pc = "done"
     /\ out.call.ret[1].ok)
      => DOMAIN out.call.ret[1].v = Elems(out.call.names)

\* the names of the map a batch call fetched, when its response held one
FetchedNames(call) ==
    IF call.resp # None /\ call.resp[1].sent /\ call.resp[1].status = 200
         /\ call.resp[1].body.form = "json" /\ call.resp[1].body.map # None
    THEN DOMAIN call.resp[1].body.map[1]
    ELSE {}

\* what the code keeps of C35: the returned map holds the names that were
\* not sent and the names of the response, and nothing but input names and
\* names of the response; its keys are the input names when the response
\* holds exactly the names that were sent
C35_BatchKeysAsFetched ==
    (/\ out.caller # 0
     /\ out.call.batch
     /\ out.call.pc = "done"
     /\ out.call.ret[1].ok)
      => /\ (Elems(out.call.names) \ Elems(out.call.to_fetch))
                \cup FetchedNames(out.call) \subseteq DOMAIN out.call.ret[1].v
         /\ DOMAIN out.call.ret[1].v
              \subseteq Elems(out.call.names) \cup FetchedNames(out.call)
         /\ FetchedNames(out.call) = Elems(out.call.to_fetch)
              => DOMAIN out.call.ret[1].v = Elems(out.call.names)

\* an entry is stored under key k in this step: the key is new, or its
\* entry is replaced by a fresh one
Stored(k) ==
    /\ k \in DOMAIN entries'
    /\ \/ k \notin DOMAIN entries
       \/ entries'[k] # entries[k] /\ entries'[k].hit_count = 0

\* a call in progress asked for the name whose key is k, a grammatical name
\* without an override
AskedFor(k) ==
    \E p \in Callers : \E i \in 1..Len(calls[p].names) :
        /\ calls[p].pc # "idle"
        /\ k = cache_key(calls[p].kind, calls[p].names[i])
        /\ Grammar(calls[p].kind, calls[p].names[i])
        /\ ~Overridden(calls[p].kind, calls[p].names[i])

\* C36: every entry of the cache is stored under the key of a grammatical
\* name without an override that a resolution call asked for: no step stores
\* an entry under another key, whatever the response to a fetch holds.
\* (Fails: the batch calls store every pair of the response.)
C36_OnlyRequestedNames ==
    [][\A k \in DOMAIN entries' : Stored(k) => AskedFor(k)]_vars

\* the part of C36 that the code keeps: a single call stores under the key of
\* its own name only, and a batch call under keys of names of its response
C36_SingleStoresOwnName ==
    [][\A p \in Callers : \A k \in DOMAIN entries' :
         (Stored(k) /\ calls[p].pc \in {"fetching", "storing"} /\ calls'[p] # calls[p])
           => IF calls[p].batch
              THEN \E n \in DOMAIN calls[p].fetched : k = cache_key(calls[p].kind, n)
              ELSE /\ k = cache_key(calls[p].kind, calls[p].names[1])
                   /\ AskedFor(k)]_vars

----------------------------------------------------------------------------
(* More claims about the predicates of MvrError, checked under SpecErrors *)

\* C37: for every error, retry_delay returns a delay exactly when
\* is_retryable is true of the error, and is_retryable and is_client_error
\* are never both true of it.  (Fails: retry_delay has a delay for
\* RateLimitExceeded, which is_retryable does not list.)
C37_PredicateConsistency ==
    /\ last.op = "retry_delay"
         => \A r \in is_retryable(last.err) : (last.ret # None) <=> r
    /\ (last.op = "is_retryable" /\ last.ret)
         => TRUE \notin is_client_error(last.err)
    /\ (last.op = "is_client_error" /\ last.ret)
         => TRUE \notin is_retryable(last.err)

\* the parts of C37 that the code keeps: an error that is_retryable can
\* report true has a delay, and no error is both retryable and a client error
C37_RetryableHasDelayNeverBoth ==
    /\ (last.op = "is_retryable" /\ last.ret) => retry_delay(last.err) # None
    /\ (last.op = "is_retryable" /\ last.ret)
         => TRUE \notin is_client_error(last.err)
    /\ (last.op = "is_client_error" /\ last.ret)
         => TRUE \notin is_retryable(last.err)

----------------------------------------------------------------------------
(* Claims about the two fetch paths, checked under Spec *)

\* C38: a batch fetch that gets a response with a status other than 200
\* fails with an error of the kind a single fetch gives for that status; for
\* 429 the error is RateLimitExceeded with the retry-after delay of the
\* response, which is_rate_limited is true of and retry_delay has that delay
\* for.  (Fails: the batch fetches make ServerError of every status but 200.)
C38_BatchClassifiesAsSingle ==
    [][\A p \in Callers :
         (/\ Responded(p)
          /\ After(p).batch
          /\ After(p).resp[1].sent
          /\ After(p).resp[1].status # 200)
           => /\ out'.caller = p
              /\ out'.call.pc = "done"
              /\ ~out'.call.ret[1].ok
              /\ out'.call.ret[1].v.kind =
                   SingleFetchError(out'.call.kind, out'.call.to_fetch[1],
                                    out'.call.resp[1]).kind
              /\ out'.call.resp[1].status = 429
                   => /\ out'.call.ret[1].v =
                           RateLimitExceeded(retry_after_or_60(out'.call.resp[1]))
                      /\ is_rate_limited(out'.call.ret[1].v)
                      /\ retry_delay(out'.call.ret[1].v) =
                           Some(retry_after_or_60(out'.call.resp[1]))]_vars

\* the part of C38 that the code keeps: the two paths agree on a transport
\* failure and on every status that a single fetch makes ServerError of
C38_BatchAgreesOnServerError ==
    [][\A p \in Callers :
         (/\ Responded(p)
          /\ After(p).batch
          /\ \/ ~After(p).resp[1].sent
             \/ After(p).resp[1].status \notin {200, 404, 429})
           => /\ out'.caller = p
              /\ out'.call.pc = "done"
              /\ out'.call.ret[1] =
                   Err(SingleFetchError(out'.call.kind, out'.call.to_fetch[1],
                                        out'.call.resp[1]))]_vars

----------------------------------------------------------------------------
(* Claims about progress, checked under SpecLive *)

\* C39: whatever max_concurrent_requests the resolver was configured with,
\* if every request that is sent is answered and the scheduling is fair,
\* every resolution call ends: no call waits for a permit for ever.  (Fails
\* for max_concurrent_requests = 0, which MvrConfig accepts: the semaphore
\* has no permit and never gets one.)
C39_Progress ==
    \A p \in Callers : (calls[p].pc # "idle") ~> (calls[p].pc = "idle")

\* C39 for a resolver with at least one permit, where the code keeps it
\* (checked with the package calls alone, single and batch)
C39_ProgressWithPermits ==
    \A p \in Callers :
        (max_concurrent_requests >= 1 /\ calls[p].pc # "idle") ~> (calls[p].pc = "idle")

\* a resolver configured with max_concurrent_requests = 0 never has a permit
C39_NoPermitEver == max_concurrent_requests = 0 => permits = 0

====
